---- MODULE Spec2Model ----
(***************************************************************************)
(* ClaudeCodeService (superdesign): the agent session manager.             *)
(*                                                                         *)
(* The service is one object on a single-threaded event loop.  Every async *)
(* method is modelled as a process that runs atomically from one await to  *)
(* the next; the model interleaves these pieces freely.  A promise is      *)
(* identified with the initialize() attempt that produces it.              *)
(***************************************************************************)
EXTENDS Integers, Sequences, FiniteSets, TLC

(* ------------------------------ bounds --------------------------------- *)
\* Number of public calls (query / waitForInitialization / refreshApiKey)
\* made on the service after its construction.
MaxTasks == 2
\* Number of raw messages the SDK yields in total, over all streams.
MaxMsgs == 2

Tasks == 1..MaxTasks
\* Attempt 0 is the constructor's initialize(); attempt t is the one started
\* by call t (a call starts at most one).
Attempts == 0..MaxTasks

(* ------------------------- nullable JS values -------------------------- *)
\* null / undefined is the empty tuple, a present value x is <<x>>.
None == <<>>
Some(x) == <<x>>

(* ---------------------- filesystem and environment --------------------- *)
ProjectRoot == "/project"
SuperdesignDir == ProjectRoot \o "/.superdesign"
TempDir == "/tmp" \o "/superdesign-claude"
Cwd == "/cwd"
ClaudeMdContent == "# SUPERDESIGN UI DESIGN SYSTEM"
UserMdContent == "# my own notes"
ConfiguredKey == "sk-ant-settings"
InheritedKey == "sk-ant-environment"

(* ----------------------------- the state ------------------------------- *)
VARIABLES
    isInitialized,          \* this.isInitialized
    initializationPromise,  \* this.initializationPromise: None or Some(attempt)
    workingDirectory,       \* this.workingDirectory
    currentSessionId,       \* this.currentSessionId: None or Some(id)
    claudeCodeQuery,        \* this.claudeCodeQuery: None or Some("query")
    processEnv,             \* process.env.ANTHROPIC_API_KEY: None or Some(key)
    apiKeySetting,          \* config.get('anthropicApiKey'): "" when unset
    workspaceFolders,       \* vscode.workspace.workspaceFolders (paths)
    fsFaulty,               \* whether mkdirSync / statSync / writeFileSync can fail
    dirs,                   \* directories that exist
    files,                  \* directory -> content of its CLAUDE.md, if any
    inits,                  \* the initialize() attempts
    tasks,                  \* the public calls in progress
    sessionCleared,         \* None, or since the last clearSession():
                            \* Some(0) no query was called yet, Some(t)
                            \* call t is the next query and has not
                            \* assembled its options yet
    event                   \* what the last step showed outside the service:
                            \* the SDK call it made, or the call that ended

service == <<isInitialized, initializationPromise, workingDirectory,
             currentSessionId, claudeCodeQuery>>
setting == <<apiKeySetting, workspaceFolders, fsFaulty>>
world == <<processEnv, apiKeySetting, workspaceFolders, fsFaulty, dirs, files>>
vars == <<isInitialized, initializationPromise, workingDirectory,
          currentSessionId, claudeCodeQuery, processEnv, apiKeySetting,
          workspaceFolders, fsFaulty, dirs, files, inits, tasks,
          sessionCleared, event>>

\* The empty record: `options` when the caller passes none, a filesystem
\* without any CLAUDE.md.
NoOverrides == [k \in {} |-> ""]

\* type: "none"; "called" (call `task` of `op` was made and is suspended;
\* args: the prompt and history given to query); "initFailed" (attempt `task` ran its catch block: err, and
\* popup when showErrorMessage was called); "sdkCall" (prompt, options);
\* "probed" (attempt `task` looked for the local candidates; args: the first
\* candidate looked at and the answers of existsSync); "returned" (value for
\* waitForInitialization and refreshApiKey; messages for query); "threw"
\* (err, and popup when showErrorMessage was called).  delivered and
\* callbackErrors are what the call's sink got and how many per-message
\* errors were caught.
NoEvent ==
    [type |-> "none", task |-> 0, op |-> "none", args |-> <<>>, prompt |-> "",
     options |-> NoOverrides, messages |-> <<>>, delivered |-> <<>>,
     callbackErrors |-> 0, value |-> FALSE, err |-> "", popup |-> FALSE]

(* ------------------------- isApiKeyAuthError --------------------------- *)
UpperCase == "ABCDEFGHIJKLMNOPQRSTUVWXYZ"
LowerCase == "abcdefghijklmnopqrstuvwxyz"

LowerChar(c) ==
    IF \E i \in 1..Len(UpperCase) : SubSeq(UpperCase, i, i) = c
    THEN LET i == CHOOSE j \in 1..Len(UpperCase) : SubSeq(UpperCase, j, j) = c
         IN  SubSeq(LowerCase, i, i)
    ELSE c

RECURSIVE ToLowerCase(_)
ToLowerCase(s) ==
    IF Len(s) = 0 THEN ""
    ELSE LowerChar(SubSeq(s, 1, 1)) \o ToLowerCase(SubSeq(s, 2, Len(s)))

Includes(s, pattern) ==
    \E i \in 1..(Len(s) - Len(pattern) + 1) :
        SubSeq(s, i, i + Len(pattern) - 1) = pattern

authErrorPatterns ==
    << "authentication failed", "invalid api key", "unauthorized",
       "authentication error", "invalid token", "access denied", "401",
       "ANTHROPIC_API_KEY" >>

\* A classifier that compares without lowering the message.
isApiKeyAuthErrorCaseSensitive(errorMessage) ==
    \E k \in 1..Len(authErrorPatterns) :
        Includes(errorMessage, authErrorPatterns[k])

isApiKeyAuthError(errorMessage) ==
    LET lowercaseMessage == ToLowerCase(errorMessage)
    IN  \E k \in 1..Len(authErrorPatterns) :
            Includes(lowercaseMessage, authErrorPatterns[k])

(* ----------------------------- error texts ----------------------------- *)
MissingPromptError == "ClaudeCodeService requires a prompt parameter"
NotInitializedError == "Claude Code SDK not initialized"
QueryUnavailableError ==
    "Claude Code SDK not properly initialized - query function not available"
QueryNotFoundError == "Query function not found in Claude Code module"
\* What a failing filesystem call throws.
SetupError == "EACCES: permission denied"
\* What the standard import can fail with (the SDK's own text).
ImportErrors ==
    { "Cannot find package '@anthropic-ai/claude-code'",
      "401 Unauthorized",
      "ANTHROPIC_API_KEY is not set" }
\* `Claude Code SDK import failed: ${importError}` with an Error stringified.
ImportFailed(cause) == "Claude Code SDK import failed: " \o "Error: " \o cause
\* What the SDK call or its stream can fail with.
StreamErrors ==
    { "Claude Code process exited with code 1", "Invalid API key",
      "ANTHROPIC_API_KEY is not set" }

\* Every error text the service can meet, and isApiKeyAuthError of each.
ErrorTexts ==
    { MissingPromptError, NotInitializedError, QueryUnavailableError,
      SetupError, ImportFailed(QueryNotFoundError) }
        \cup { ImportFailed(cause) : cause \in ImportErrors } \cup StreamErrors
AuthErrorOf == [m \in ErrorTexts |-> isApiKeyAuthError(m)]

(* ------------------------ setupWorkingDirectory ------------------------ *)
\* A CLAUDE.md: its content, and how many times this service wrote it (0 for
\* a file it found).
File(content, writes) == [content |-> content, writes |-> writes]

\* A createClaudeMdFile that writes the file whether or not it exists.
createClaudeMdFileAlways(directory, fls, statFails, writeFails) ==
    [files |-> IF writeFails THEN fls
               ELSE [d \in DOMAIN fls \cup {directory} |->
                       IF d # directory THEN fls[d]
                       ELSE File(ClaudeMdContent,
                                 IF d \in DOMAIN fls THEN fls[d].writes + 1
                                 ELSE 1)],
     threw |-> FALSE, writeFailed |-> writeFails]

\* createClaudeMdFile: [files, threw, writeFailed].  statSync of an existing
\* file may throw (not caught here); a failed write is caught and logged.
createClaudeMdFile(directory, fls, statFails, writeFails) ==
    IF directory \in DOMAIN fls
    THEN [files |-> fls, threw |-> statFails, writeFailed |-> FALSE]
    ELSE [files |-> IF writeFails THEN fls
                    ELSE [d \in DOMAIN fls \cup {directory} |->
                            IF d = directory THEN File(ClaudeMdContent, 1)
                            ELSE fls[d]],
          threw |-> FALSE, writeFailed |-> writeFails]

\* A try block that shows the no-workspace warning before it creates the
\* CLAUDE.md, so that the warning is out when createClaudeMdFile throws.
setupTryWarningFirst(folders, ds, fls, mkdirFails, statFails, writeFails) ==
    LET workspaceRoot == IF Len(folders) > 0 THEN Some(folders[1]) ELSE None
        target == IF workspaceRoot # None
                  THEN workspaceRoot[1] \o "/.superdesign"
                  ELSE TempDir
    IN  IF target \notin ds /\ mkdirFails
        THEN [threw |-> TRUE, wd |-> "", dirs |-> ds, files |-> fls,
              warned |-> FALSE, writeFailed |-> FALSE]
        ELSE LET md == createClaudeMdFile(target, fls, statFails, writeFails)
             IN  [threw |-> md.threw, wd |-> target, dirs |-> ds \cup {target},
                  files |-> md.files, warned |-> workspaceRoot = None,
                  writeFailed |-> md.writeFailed]

\* The try block of setupWorkingDirectory (lines 339-382): threw, the
\* directory assigned to this.workingDirectory before that ("" if none), the
\* filesystem it leaves, whether it showed the warning, and whether its
\* write of the CLAUDE.md failed.
setupTry(folders, ds, fls, mkdirFails, statFails, writeFails) ==
    LET workspaceRoot == IF Len(folders) > 0 THEN Some(folders[1]) ELSE None
        target == IF workspaceRoot # None
                  THEN workspaceRoot[1] \o "/.superdesign"
                  ELSE TempDir
    IN  IF target \notin ds /\ mkdirFails
        THEN [threw |-> TRUE, wd |-> "", dirs |-> ds, files |-> fls,
              warned |-> FALSE, writeFailed |-> FALSE]
        ELSE LET md == createClaudeMdFile(target, fls, statFails, writeFails)
             IN  IF md.threw
                 THEN [threw |-> TRUE, wd |-> target, dirs |-> ds \cup {target},
                       files |-> fls, warned |-> FALSE, writeFailed |-> FALSE]
                 ELSE [threw |-> FALSE, wd |-> target,
                       dirs |-> ds \cup {target}, files |-> md.files,
                       warned |-> workspaceRoot = None,
                       writeFailed |-> md.writeFailed]

\* A setupWorkingDirectory without its catch block.
setupWorkingDirectoryUncaught(folders, ds, fls, mkdirFails, statFails, writeFails) ==
    setupTry(folders, ds, fls, mkdirFails, statFails, writeFails)

\* The whole of setupWorkingDirectory (it has no await): what its try block
\* did, with the catch block's fallback to process.cwd() (lines 383-388).
setupWorkingDirectory(folders, ds, fls, mkdirFails, statFails, writeFails) ==
    LET try == setupTry(folders, ds, fls, mkdirFails, statFails, writeFails)
    IN  IF try.threw
        THEN [try EXCEPT !.threw = FALSE, !.wd = Cwd]
        ELSE try

(* ------------------------------ attempts ------------------------------- *)
\* pc: "none" not started; "setup" suspended at `await setupWorkingDirectory()`;
\* "import1".."import3" suspended at the import of a local candidate;
\* "importStd" suspended at the standard import; "resolved" / "rejected".
\* loaded: the module-loading step was entered; warned: its setup showed the
\* no-workspace warning; writeFailed: its setup could not write the
\* CLAUDE.md; err: the rejection's error text, kept as long as a
\* call is suspended on the promise.
\* by: who called initialize(): "ctor", "ensure" (ensureInitialized) or
\* "refresh" (refreshApiKey).
\* setupThrew: `await this.setupWorkingDirectory()` is going to throw.
NoAttempt ==
    [pc |-> "none", by |-> "", loaded |-> FALSE, warned |-> FALSE,
     writeFailed |-> FALSE, setupThrew |-> FALSE, err |-> ""]

AwaitPcs == { "ensureAwait", "retryAwait", "refreshAwait" }
Awaited(a, except) ==
    \E u \in Tasks \ except : tasks[u].pc \in AwaitPcs /\ tasks[u].awaiting = a

Settled(a) == inits[a].pc \in {"resolved", "rejected"}
InFlight(a) == inits[a].pc \notin {"none", "resolved", "rejected"}

LocalCandidates == 1..3
ImportPc(i) == IF i = 0 THEN "importStd"
               ELSE <<"import1", "import2", "import3">>[i]
CandidateOf(pc) == CHOOSE i \in LocalCandidates : ImportPc(i) = pc

\* What existsSync can answer for the three candidates within one synchronous
\* pass: candidates 1 and 3 are the same path (path.resolve and path.join of
\* the same segments), so they agree.
ExistsAnswers == { e \in [LocalCandidates -> BOOLEAN] : e[1] = e[3] }

\* A probe that takes the last candidate that exists.
NextCandidateFromLast(from, exists) ==
    IF \E i \in from..3 : exists[i]
    THEN CHOOSE i \in from..3 : exists[i] /\ \A j \in (i + 1)..3 : ~exists[j]
    ELSE 0

\* The first candidate from `from` on that exists, 0 if none (the loop ends
\* and 'All local import paths failed' sends control to the standard import).
NextCandidate(from, exists) ==
    IF \E i \in from..3 : exists[i]
    THEN CHOOSE i \in from..3 : exists[i] /\ \A j \in from..(i - 1) : ~exists[j]
    ELSE 0

\* What a filesystem call can do: fail only on a faulty filesystem.
Faults == IF fsFaulty THEN BOOLEAN ELSE {FALSE}

\* Attempt a went through the candidates from `from` on, with these answers
\* of existsSync, up to its next import.
Probed(a, from, exists) ==
    [NoEvent EXCEPT !.type = "probed", !.task = a,
                    !.args = Some([from |-> from, exists |-> exists])]

\* The synchronous head of initialize(), run by whoever calls it: the early
\* return when already initialized, else setupWorkingDirectory and the
\* suspension at its await.
StartInitialize(a, by) ==
    IF isInitialized
    THEN /\ inits' = [inits EXCEPT ![a] =
                        [NoAttempt EXCEPT !.pc = "resolved", !.by = by]]
         /\ UNCHANGED <<workingDirectory, dirs, files>>
    ELSE \E mkdirFails, statFails, writeFails \in Faults :
            LET s == setupWorkingDirectory(workspaceFolders, dirs, files,
                                           mkdirFails, statFails, writeFails)
            IN  /\ workingDirectory' = s.wd
                /\ dirs' = s.dirs
                /\ files' = s.files
                /\ inits' = [inits EXCEPT ![a] =
                                [NoAttempt EXCEPT !.pc = "setup", !.by = by,
                                                  !.warned = s.warned,
                                                  !.writeFailed = s.writeFailed,
                                                  !.setupThrew = s.threw]]

\* A catch block that forgets `this.isInitialized = false`.
FailInitializeKeepingReady(a, message, query) ==
    /\ inits' = [inits EXCEPT ![a].pc = "rejected",
                              ![a].err = IF Awaited(a, {}) THEN message ELSE ""]
    /\ event' = [NoEvent EXCEPT !.type = "initFailed", !.task = a,
                                !.err = message,
                                !.popup = ~AuthErrorOf[message]]
    /\ initializationPromise' = None
    /\ isInitialized' = isInitialized
    /\ claudeCodeQuery' = query

\* A catch block that forgets `this.initializationPromise = null`.
FailInitializeKeepingPromise(a, message, query) ==
    /\ inits' = [inits EXCEPT ![a].pc = "rejected",
                              ![a].err = IF Awaited(a, {}) THEN message ELSE ""]
    /\ event' = [NoEvent EXCEPT !.type = "initFailed", !.task = a,
                                !.err = message,
                                !.popup = ~AuthErrorOf[message]]
    /\ isInitialized' = FALSE
    /\ claudeCodeQuery' = query
    /\ UNCHANGED initializationPromise

\* The catch block of initialize().
FailInitialize(a, message, query) ==
    /\ inits' = [inits EXCEPT ![a].pc = "rejected",
                              ![a].err = IF Awaited(a, {}) THEN message ELSE ""]
    /\ event' = [NoEvent EXCEPT !.type = "initFailed", !.task = a,
                                !.err = message,
                                !.popup = ~AuthErrorOf[message]]
    /\ initializationPromise' = None
    /\ isInitialized' = FALSE
    /\ claudeCodeQuery' = query

\* An end of import that does not test the query export (no lines 94-96).
FinishImportUnchecked(a, export) ==
    /\ claudeCodeQuery' = export
    /\ isInitialized' = TRUE
    /\ inits' = [inits EXCEPT ![a].pc = "resolved", ![a].loaded = TRUE]
    /\ event' = NoEvent
    /\ UNCHANGED initializationPromise

\* Lines 92-105: the module is loaded; take its query export.
FinishImport(a, export) ==
    IF export = None
    THEN FailInitialize(a, ImportFailed(QueryNotFoundError), None)
    ELSE /\ claudeCodeQuery' = export
         /\ isInitialized' = TRUE
         /\ inits' = [inits EXCEPT ![a].pc = "resolved", ![a].loaded = TRUE]
         /\ event' = NoEvent
         /\ UNCHANGED initializationPromise

\* What a loaded module exports as `query`.
ModuleExports == { None, Some("query") }

\* An initialize() without lines 46-48: the key of the settings is not
\* exported.
InitAfterSetupKeepingEnv(a) ==
    /\ inits[a].pc = "setup"
    /\ IF inits[a].setupThrew
       THEN /\ FailInitialize(a, SetupError, claudeCodeQuery)
            /\ UNCHANGED <<workingDirectory, currentSessionId, processEnv>>
       ELSE /\ \E exists \in ExistsAnswers :
                  /\ inits' = [inits EXCEPT
                                 ![a].pc = ImportPc(NextCandidate(1, exists)),
                                 ![a].loaded = TRUE]
                  /\ event' = Probed(a, 1, exists)
            /\ UNCHANGED <<service, processEnv>>
    /\ UNCHANGED <<setting, dirs, files, tasks, sessionCleared>>

\* initialize() resumes after `await this.setupWorkingDirectory()`: the API key
\* is exported, then the candidates are probed up to the first import.
InitAfterSetup(a) ==
    /\ inits[a].pc = "setup"
    /\ IF inits[a].setupThrew
       THEN /\ FailInitialize(a, SetupError, claudeCodeQuery)
            /\ UNCHANGED <<workingDirectory, currentSessionId, processEnv>>
       ELSE /\ processEnv' = IF apiKeySetting # "" THEN Some(apiKeySetting)
                             ELSE processEnv
            /\ \E exists \in ExistsAnswers :
                  /\ inits' = [inits EXCEPT
                                 ![a].pc = ImportPc(NextCandidate(1, exists)),
                                 ![a].loaded = TRUE]
                  /\ event' = Probed(a, 1, exists)
            /\ UNCHANGED service
    /\ UNCHANGED <<setting, dirs, files, tasks, sessionCleared>>

\* The import of a local candidate settles.
InitLocalImport(a) ==
    /\ inits[a].pc \in {"import1", "import2", "import3"}
    /\ \/ \E export \in ModuleExports :
             /\ FinishImport(a, export)
             /\ UNCHANGED <<workingDirectory, currentSessionId>>
       \/ \E exists \in ExistsAnswers :
             /\ inits' = [inits EXCEPT ![a].pc =
                     ImportPc(NextCandidate(CandidateOf(inits[a].pc) + 1, exists))]
             /\ event' = Probed(a, CandidateOf(inits[a].pc) + 1, exists)
             /\ UNCHANGED service
    /\ UNCHANGED <<world, tasks, sessionCleared>>

\* A standard import whose settling forgets the session.
InitStandardImportClearing(a) ==
    /\ inits[a].pc = "importStd"
    /\ \/ \E export \in ModuleExports : FinishImport(a, export)
       \/ \E cause \in ImportErrors :
             FailInitialize(a, ImportFailed(cause), claudeCodeQuery)
    /\ currentSessionId' = None
    /\ UNCHANGED <<workingDirectory, world, tasks, sessionCleared>>

\* The standard import settles.
InitStandardImport(a) ==
    /\ inits[a].pc = "importStd"
    /\ \/ \E export \in ModuleExports : FinishImport(a, export)
       \/ \E cause \in ImportErrors :
             FailInitialize(a, ImportFailed(cause), claudeCodeQuery)
    /\ UNCHANGED <<workingDirectory, currentSessionId, world, tasks,
                   sessionCleared>>

(* ------------------------------ JS values ------------------------------ *)
\* A loosely typed field: its typeof and its text (a number's decimal text, an
\* object's JSON text).
Undefined == [t |-> "undefined", v |-> ""]
Str(s) == [t |-> "string", v |-> s]
Num(s) == [t |-> "number", v |-> s]
Obj(json) == [t |-> "object", v |-> json]

Truthy(x) ==
    CASE x.t = "undefined" -> FALSE
      [] x.t = "string" -> x.v # ""
      [] x.t = "number" -> x.v # "0"
      [] OTHER -> TRUE

\* a || b
OrElse(a, b) == IF Truthy(a) THEN a ELSE b

(* ---------------------------- raw messages ----------------------------- *)
\* An SDK message: its tag and the fields the service reads.  messageContent
\* is message.content when message is an object.
Raw(type) ==
    [type |-> type, text |-> Undefined, id |-> Undefined, name |-> Undefined,
     input |-> Undefined, tool_use_id |-> Undefined, content |-> Undefined,
     message |-> Undefined, messageContent |-> Undefined, result |-> Undefined,
     parent_tool_use_id |-> Undefined, session_id |-> Undefined]

SystemInit == [Raw("system") EXCEPT !.session_id = Str("S1")]
TextHello == [Raw("text") EXCEPT !.text = Str("hello")]
TextNumber == [Raw("text") EXCEPT !.text = Num("42")]
ResultDone == [Raw("result") EXCEPT !.result = Str("done"), !.session_id = Str("S2")]

\* The messages the SDK yields in the lifecycle specification.
StreamMessages == { SystemInit, TextHello, TextNumber, ResultDone }

\* More shapes of SDK messages, for the specification of the translation.
TextEmpty == [Raw("text") EXCEPT !.text = Str("")]
TextMissing == Raw("text")
Bogus == Raw("bogus")
UserEcho == [Raw("user") EXCEPT !.message = Obj("{\"role\":\"user\"}"),
                                !.session_id = Str("S1")]
ToolUse == [Raw("tool_use") EXCEPT !.id = Str("call-1"), !.name = Str("Write"),
                                   !.input = Obj("{\"file_path\":\"a.html\"}")]
ToolResult == [Raw("tool_result") EXCEPT !.tool_use_id = Str("call-1"),
                                         !.content = Str("written")]
AssistantString == [Raw("assistant") EXCEPT !.message = Str("hi there")]
AssistantWrapped ==
    [Raw("assistant") EXCEPT !.message = Obj("{\"content\":\"wrapped\"}"),
                             !.messageContent = Str("wrapped")]
AssistantBare == [Raw("assistant") EXCEPT !.message = Obj("{}")]
AssistantParts ==
    [Raw("assistant") EXCEPT
        !.message = Obj("{\"content\":[{\"type\":\"text\",\"text\":\"hi\"}]}"),
        !.messageContent = Obj("[{\"type\":\"text\",\"text\":\"hi\"}]")]
AssistantMissing == Raw("assistant")
ResultContent == [Raw("result") EXCEPT !.content = Obj("{\"ok\":true}"),
                                       !.parent_tool_use_id = Str("call-1")]
ResultEmpty == Raw("result")
ResultEmptyString == [Raw("result") EXCEPT !.result = Str("")]
ResultNumber == [Raw("result") EXCEPT !.content = Str(""),
                                      !.result = Num("42")]

MessageCatalog ==
    StreamMessages \cup
        { TextEmpty, TextMissing, Bogus, UserEcho, ToolUse, ToolResult,
          AssistantString, AssistantWrapped, AssistantBare, AssistantParts,
          AssistantMissing,
          ResultContent, ResultEmpty, ResultEmptyString, ResultNumber }

(* ------------------------- message translation ------------------------- *)
ToolPart(type, toolCallId, toolName, payload) ==
    [type |-> type, toolCallId |-> toolCallId, toolName |-> toolName,
     payload |-> payload]

\* A CoreMessage: content is either a value (isList FALSE) or a list of parts.
TextMessage(role, value) ==
    [role |-> role, isList |-> FALSE, value |-> value, parts |-> <<>>]
PartsMessage(role, parts) ==
    [role |-> role, isList |-> TRUE, value |-> Undefined, parts |-> parts]

\* typeof c === 'string' ? c : JSON.stringify(c)
Stringify(c) == IF c.t = "string" THEN c ELSE Str(c.v)

\* A text branch that reads the content field instead of the text field.
TextBranchFromContent(message) ==
    IF message.text.t # "string"
    THEN [threw |-> TRUE, out |-> None]
    ELSE [threw |-> FALSE,
          out |-> Some(TextMessage("assistant", message.content))]

\* Lines 718-725: message.text.substring(0, 100) is a TypeError unless the
\* (truthy) text is a string.
TextBranch(message) ==
    IF message.text.t # "string"
    THEN [threw |-> TRUE, out |-> None]
    ELSE [threw |-> FALSE,
          out |-> Some(TextMessage("assistant", message.text))]

\* Lines 726-738.
ToolUseBranch(message) ==
    [threw |-> FALSE,
     out |-> Some(PartsMessage("assistant",
                <<ToolPart("tool-call", message.id, message.name,
                           message.input)>>))]

\* Lines 739-751.
ToolResultBranch(message) ==
    [threw |-> FALSE,
     out |-> Some(PartsMessage("tool",
                <<ToolPart("tool-result", message.tool_use_id, Str(""),
                           message.content)>>))]

\* An assistant branch that always reads the content of the wrapped message.
AssistantBranchContentOnly(message) ==
    [threw |-> FALSE,
     out |-> Some(TextMessage("assistant",
                OrElse(message.messageContent, Str(""))))]

\* Lines 752-762.
AssistantBranch(message) ==
    [threw |-> FALSE,
     out |-> Some(TextMessage("assistant",
                IF message.message.t = "string"
                THEN message.message
                ELSE OrElse(message.messageContent, Str(""))))]

\* A result branch that passes the payload on as it is.
ResultBranchRaw(message) ==
    IF Truthy(message.content) \/ Truthy(message.result)
    THEN [threw |-> FALSE,
          out |-> Some(PartsMessage("tool",
                <<ToolPart("tool-result",
                           OrElse(message.parent_tool_use_id, Str("unknown")),
                           Str(""),
                           OrElse(message.content, message.result))>>))]
    ELSE [threw |-> FALSE, out |-> None]

\* Lines 763-778.
ResultBranch(message) ==
    IF Truthy(message.content) \/ Truthy(message.result)
    THEN [threw |-> FALSE,
          out |-> Some(PartsMessage("tool",
                <<ToolPart("tool-result",
                           OrElse(message.parent_tool_use_id, Str("unknown")),
                           Str(""),
                           Stringify(OrElse(message.content,
                                            message.result)))>>))]
    ELSE [threw |-> FALSE, out |-> None]

\* A translator for which a tag it does not know is an error.
UnknownBranchThrowing(message) == [threw |-> TRUE, out |-> None]

\* Lines 779-781: logged, nothing built.
UnknownBranch(message) == [threw |-> FALSE, out |-> None]

\* The body of the per-message try block up to the call of onMessage:
\* [threw, out] with out None when nothing is built for the sink.
Translate(message) ==
    CASE message.type = "text" /\ Truthy(message.text) -> TextBranch(message)
      [] message.type = "tool_use" -> ToolUseBranch(message)
      [] message.type = "tool_result" -> ToolResultBranch(message)
      [] message.type = "assistant" /\ Truthy(message.message) ->
            AssistantBranch(message)
      [] message.type = "result" -> ResultBranch(message)
      [] OTHER -> UnknownBranch(message)

(* --------------------------- session adoption -------------------------- *)
\* A scan from the front: messages.find(...) without the reverse().
firstMessageWithSessionId(messages) ==
    IF \E i \in 1..Len(messages) : Truthy(messages[i].session_id)
    THEN Some(messages[CHOOSE i \in 1..Len(messages) :
                          /\ Truthy(messages[i].session_id)
                          /\ \A j \in 1..(i - 1) :
                                ~Truthy(messages[j].session_id)])
    ELSE None

\* [...messages].reverse().find(m => 'session_id' in m && m.session_id)
RECURSIVE lastMessageWithSessionId(_)
lastMessageWithSessionId(messages) ==
    IF Len(messages) = 0 THEN None
    ELSE IF Truthy(messages[Len(messages)].session_id)
         THEN Some(messages[Len(messages)])
         ELSE lastMessageWithSessionId(SubSeq(messages, 1, Len(messages) - 1))

\* Lines 789-792: the session id after a stream that ended without error.
AdoptSessionId(messages, current) ==
    LET found == lastMessageWithSessionId(messages)
    IN  IF found # None THEN Some(found[1].session_id.v) ELSE current

(* --------------------------- prompt resolution ------------------------- *)
\* A turn's content: a string, an array of parts, or anything else.
StringContent(s) == [kind |-> "string", s |-> s, parts |-> <<>>]
ArrayContent(parts) == [kind |-> "array", s |-> "", parts |-> parts]
Turn(role, content) == [role |-> role, content |-> content]

RECURSIVE JoinParts(_)
JoinParts(parts) ==
    IF Len(parts) = 0 THEN ""
    ELSE (IF Head(parts).type = "text" THEN Head(parts).text
          ELSE "[" \o Head(parts).type \o "]") \o JoinParts(Tail(parts))

\* A rendering that knows string content only.
RenderTurnStringOnly(msg) ==
    msg.role \o ": " \o
        (IF msg.content.kind = "string" THEN msg.content.s
         ELSE "[complex content]")

RenderTurn(msg) ==
    msg.role \o ": " \o
        (CASE msg.content.kind = "string" -> msg.content.s
           [] msg.content.kind = "array" -> JoinParts(msg.content.parts)
           [] OTHER -> "[complex content]")

RECURSIVE JoinTurns(_)
JoinTurns(turns) ==
    IF Len(turns) = 0 THEN ""
    ELSE IF Len(turns) = 1 THEN RenderTurn(turns[1])
    ELSE RenderTurn(turns[1]) \o "\n\n" \o JoinTurns(Tail(turns))

\* A resolution that coerces the prompt to text (`${prompt}`) before the
\* emptiness test: an absent prompt reads "undefined".
EffectivePromptCoerced(prompt, conversationMessages) ==
    LET given == IF prompt = None THEN "undefined" ELSE prompt[1]
    IN  IF given = "" /\ conversationMessages # None
                      /\ Len(conversationMessages[1]) > 0
        THEN JoinTurns(conversationMessages[1])
        ELSE given

\* Lines 410-423: prompt and conversationMessages are None when absent.
EffectivePrompt(prompt, conversationMessages) ==
    LET given == IF prompt = None THEN "" ELSE prompt[1]
    IN  IF given = "" /\ conversationMessages # None
                      /\ Len(conversationMessages[1]) > 0
        THEN JoinTurns(conversationMessages[1])
        ELSE given

Prompts == { None, Some(""), Some("make a login page") }
Histories ==
    { None, Some(<<>>),
      Some(<< Turn("user", StringContent("hi")),
              Turn("assistant", StringContent("hello")) >>) }

\* More shapes of histories, for the specification of the prompt: parts
\* that are text and parts that are not, and a content that is neither a
\* string nor an array.
Part(type, text) == [type |-> type, text |-> text]
OtherContent == [kind |-> "object", s |-> "", parts |-> <<>>]
HistoryHi ==
    << Turn("user", StringContent("hi")),
       Turn("assistant", StringContent("hello")) >>
HistoryParts ==
    << Turn("user", ArrayContent(<< Part("text", "what is "),
                                    Part("image", ""),
                                    Part("text", "?") >>)),
       Turn("assistant", ArrayContent(<< Part("tool-call", "") >>)),
       Turn("user", StringContent("")) >>
HistoryOne == << Turn("user", ArrayContent(<<>>)) >>
HistoryOther == << Turn("tool", OtherContent) >>
HistoryCatalog ==
    Histories \cup
        { Some(HistoryHi), Some(HistoryParts), Some(HistoryOne),
          Some(HistoryOther) }

(* ----------------------------- query options --------------------------- *)
allowedTools ==
    << "Edit", "Read", "Create", "Write", "Glob", "Grep", "LS", "WebFetch",
       "TodoRead", "TodoWrite", "WebSearch", "MultiEdit", "Search", "Update",
       "Task", "Delete", "Bash" >>
SystemPrompt == "# Role: senior front-end designer"

\* What a caller passes as `options`.
Overrides ==
    { NoOverrides,
      [resume |-> "S-caller"],
      [cwd |-> "/elsewhere", permissionMode |-> "plan"],
      [maxTurns |-> 5, allowedTools |-> <<"Read">>,
       customSystemPrompt |-> "be terse"] }

\* An assembly that spreads the defaults over the caller's keys.
FinalOptionsDefaultsWin(options, wd, sessionId) ==
    LET defaults == [maxTurns |-> 999, allowedTools |-> allowedTools,
                     permissionMode |-> "acceptEdits", cwd |-> wd,
                     customSystemPrompt |-> SystemPrompt]
        spread == [k \in DOMAIN defaults \cup DOMAIN options |->
                      IF k \in DOMAIN defaults THEN defaults[k] ELSE options[k]]
    IN  IF sessionId # None
        THEN [k \in DOMAIN spread \cup {"resume"} |->
                 IF k = "resume" THEN sessionId[1] ELSE spread[k]]
        ELSE spread

\* Lines 630-665: the defaults, the caller's keys over them, then the resume
\* token when a session id is cached.
FinalOptions(options, wd, sessionId) ==
    LET defaults == [maxTurns |-> 999, allowedTools |-> allowedTools,
                     permissionMode |-> "acceptEdits", cwd |-> wd,
                     customSystemPrompt |-> SystemPrompt]
        spread == [k \in DOMAIN defaults \cup DOMAIN options |->
                      IF k \in DOMAIN options THEN options[k] ELSE defaults[k]]
    IN  IF sessionId # None
        THEN [k \in DOMAIN spread \cup {"resume"} |->
                 IF k = "resume" THEN sessionId[1] ELSE spread[k]]
        ELSE spread

(* -------------------------------- calls -------------------------------- *)
\* op: "query" | "wait" (waitForInitialization) | "refresh" (refreshApiKey);
\* "done" once the call has returned or thrown (its frame is gone).
\* pc: "idle"; "ensureAwait" at `await this.initializationPromise` (line 393);
\* "retryAwait" at line 399; "ensured" when ensureInitialized has returned and
\* the caller's await has not resumed yet; "streaming" inside `for await`;
\* "refreshAwait" at line 844; "done".
\* sink: the onMessage the caller passed: "none", "collecting", or "throwing"
\* (one that throws on every message it is given).
NoTask ==
    [op |-> "none", pc |-> "idle", awaiting |-> 0, prompt |-> "",
     sink |-> "none", messages |-> <<>>, delivered |-> <<>>,
     callbackErrors |-> 0]
DoneTask == [NoTask EXCEPT !.op = "done", !.pc = "done"]
Sinks == { "none", "collecting", "throwing" }

\* Calls are numbered in the order they are made.
CanCall(t) ==
    /\ tasks[t].op = "none"
    /\ IF t = 1 THEN TRUE ELSE tasks[t - 1].op # "none"

\* The messages held in the accumulators of the running queries.
RECURSIVE SumLen(_)
SumLen(t) == IF t = 0 THEN 0 ELSE Len(tasks[t].messages) + SumLen(t - 1)
TotalYielded == SumLen(MaxTasks)

\* Call t of `op` has been made and goes on.
Called(t, op, args) ==
    [NoEvent EXCEPT !.type = "called", !.task = t, !.op = op, !.args = args]

\* The call of `base` returns `value` (waitForInitialization, refreshApiKey).
Returns(t, base, value) ==
    /\ tasks' = [tasks EXCEPT ![t] = DoneTask]
    /\ event' = [NoEvent EXCEPT !.type = "returned", !.task = t,
                                !.op = base.op, !.value = value]

\* The call of `base` throws `message`; popup: showErrorMessage was called.
Throws(t, base, message, popup) ==
    /\ tasks' = [tasks EXCEPT ![t] = DoneTask]
    /\ event' = [NoEvent EXCEPT !.type = "threw", !.task = t, !.op = base.op,
                                !.err = message, !.popup = popup,
                                !.messages = base.messages,
                                !.delivered = base.delivered,
                                !.callbackErrors = base.callbackErrors]

\* Call t stops awaiting its promise: a rejection's error text is dropped
\* with its last awaiter.
Released(t) ==
    IF Awaited(tasks[t].awaiting, {t}) THEN inits
    ELSE [inits EXCEPT ![tasks[t].awaiting].err = ""]

\* A waitForInitialization without its try/catch: the error of
\* ensureInitialized reaches the caller.
EnsureFailedRethrowing(t, base, message) == Throws(t, base, message, FALSE)

\* ensureInitialized throws: query rejects with the same error (line 434 is
\* outside its try), waitForInitialization returns false (lines 816-819).
EnsureFailed(t, base, message) ==
    IF base.op = "query"
    THEN Throws(t, base, message, FALSE)
    ELSE Returns(t, base, FALSE)

\* Lines 395-403.
EnsureCheck(t, base, ev) ==
    IF ~isInitialized \/ claudeCodeQuery = None
    THEN IF initializationPromise = None
         THEN /\ initializationPromise' = Some(t)
              /\ StartInitialize(t, "ensure")
              /\ tasks' = [tasks EXCEPT ![t] =
                              [base EXCEPT !.pc = "retryAwait", !.awaiting = t]]
              /\ event' = ev
              /\ UNCHANGED <<isInitialized, currentSessionId, claudeCodeQuery>>
         ELSE /\ EnsureFailed(t, base, NotInitializedError)
              /\ UNCHANGED <<service, dirs, files, inits>>
    ELSE /\ tasks' = [tasks EXCEPT ![t] = [base EXCEPT !.pc = "ensured"]]
         /\ event' = ev
         /\ UNCHANGED <<service, dirs, files, inits>>

\* An ensureInitialized without lines 392-394 and without the test of line
\* 397: a caller that finds the service not ready starts an initialization
\* of its own.
EnsureEnterUnshared(t, base, ev) ==
    IF ~isInitialized \/ claudeCodeQuery = None
    THEN /\ initializationPromise' = Some(t)
         /\ StartInitialize(t, "ensure")
         /\ tasks' = [tasks EXCEPT ![t] =
                         [base EXCEPT !.pc = "retryAwait", !.awaiting = t]]
         /\ event' = ev
         /\ UNCHANGED <<isInitialized, currentSessionId, claudeCodeQuery>>
    ELSE /\ tasks' = [tasks EXCEPT ![t] = [base EXCEPT !.pc = "ensured"]]
         /\ event' = ev
         /\ UNCHANGED <<service, dirs, files, inits>>

\* Lines 392-394, then 395-403 when there is no promise to await.
EnsureEnter(t, base, ev) ==
    IF initializationPromise # None
    THEN /\ tasks' = [tasks EXCEPT ![t] =
                         [base EXCEPT !.pc = "ensureAwait",
                                      !.awaiting = initializationPromise[1]]]
         /\ event' = ev
         /\ UNCHANGED <<service, dirs, files, inits>>
    ELSE EnsureCheck(t, base, ev)

\* The await of line 393 resumes.
EnsureResume(t) ==
    /\ tasks[t].pc = "ensureAwait"
    /\ Settled(tasks[t].awaiting)
    /\ IF inits[tasks[t].awaiting].pc = "rejected"
       THEN /\ EnsureFailed(t, tasks[t], inits[tasks[t].awaiting].err)
            /\ inits' = Released(t)
            /\ UNCHANGED <<service, dirs, files>>
       ELSE EnsureCheck(t, tasks[t], NoEvent)
    /\ UNCHANGED <<processEnv, setting, sessionCleared>>

\* The await of line 399 resumes.
RetryResume(t) ==
    /\ tasks[t].pc = "retryAwait"
    /\ Settled(tasks[t].awaiting)
    /\ IF inits[tasks[t].awaiting].pc = "rejected"
       THEN EnsureFailed(t, tasks[t], inits[tasks[t].awaiting].err)
       ELSE /\ tasks' = [tasks EXCEPT ![t].pc = "ensured"]
            /\ event' = NoEvent
    /\ inits' = Released(t)
    /\ UNCHANGED <<service, world, sessionCleared>>

\* Lines 410-434 of query(prompt, conversationMessages, ...): the prompt is
\* resolved, then ensureInitialized is entered.
QueryStart(t, prompt, history) ==
    LET effectivePrompt == EffectivePrompt(prompt, history)
        base == [NoTask EXCEPT !.op = "query", !.prompt = effectivePrompt]
        args == Some([prompt |-> prompt, history |-> history])
    IN  IF effectivePrompt = ""
        THEN /\ tasks' = [tasks EXCEPT ![t] = DoneTask]
             /\ event' = [NoEvent EXCEPT
                    !.type = "threw", !.task = t, !.op = "query",
                    !.args = args, !.err = MissingPromptError]
             /\ UNCHANGED <<service, dirs, files, inits>>
        ELSE EnsureEnter(t, base, Called(t, "query", args))

\* query(prompt, conversationMessages, ...) up to its first await.
QueryCall(t) ==
    /\ CanCall(t)
    /\ \E prompt \in Prompts, history \in Histories :
          QueryStart(t, prompt, history)
    /\ sessionCleared' = IF sessionCleared = Some(0) THEN Some(t)
                         ELSE sessionCleared
    /\ UNCHANGED <<processEnv, setting>>

\* The same call, with any history of the catalog.
QueryCallAny(t) ==
    /\ CanCall(t)
    /\ \E prompt \in Prompts, history \in HistoryCatalog :
          QueryStart(t, prompt, history)
    /\ sessionCleared' = IF sessionCleared = Some(0) THEN Some(t)
                         ELSE sessionCleared
    /\ UNCHANGED <<processEnv, setting>>

\* The catch block of query (lines 796-805).
QueryCatch(t, message) ==
    Throws(t, tasks[t], message, ~AuthErrorOf[message])

\* query resumes after `await this.ensureInitialized()`: the options are
\* assembled from the caller's `options` and the SDK is called with the
\* caller's onMessage as sink (lines 629-709).
QueryInvoke(t) ==
    /\ tasks[t].op = "query"
    /\ tasks[t].pc = "ensured"
    /\ IF claudeCodeQuery = None
       THEN QueryCatch(t, QueryUnavailableError)
       ELSE \/ \E options \in Overrides, sink \in Sinks :
                /\ tasks' = [tasks EXCEPT ![t].pc = "streaming",
                                          ![t].sink = sink]
                /\ event' = [NoEvent EXCEPT
                        !.type = "sdkCall", !.task = t, !.op = "query",
                        !.args = Some([options |-> options]),
                        !.prompt = tasks[t].prompt,
                        !.options = FinalOptions(options, workingDirectory,
                                                 currentSessionId)]
            \/ \E e \in StreamErrors : QueryCatch(t, e)
    /\ sessionCleared' = IF sessionCleared = Some(t) THEN None
                         ELSE sessionCleared
    /\ UNCHANGED <<service, world, inits>>

\* An iteration without the try/catch of lines 715-786: what translation or
\* the sink throws reaches the catch block of query.
StreamYieldUncaught(t) ==
    /\ tasks[t].pc = "streaming"
    /\ TotalYielded < MaxMsgs
    /\ \E message \in StreamMessages :
          LET tr == Translate(message)
              offered == tasks[t].sink # "none" /\ ~tr.threw /\ tr.out # None
              thrown == \/ tasks[t].sink # "none" /\ tr.threw
                        \/ offered /\ tasks[t].sink = "throwing"
              received == [tasks[t] EXCEPT
                    !.messages = Append(@, message),
                    !.delivered = IF offered THEN Append(@, tr.out[1]) ELSE @]
          IN  IF thrown
              THEN Throws(t, received, "onMessage failed", TRUE)
              ELSE /\ tasks' = [tasks EXCEPT ![t] = received]
                   /\ event' = NoEvent
    /\ UNCHANGED <<service, world, inits, sessionCleared>>

\* An iteration that pushes the message only once it was handed to the sink.
StreamYieldDropping(t) ==
    /\ tasks[t].pc = "streaming"
    /\ TotalYielded < MaxMsgs
    /\ \E message \in StreamMessages :
          LET tr == Translate(message)
              offered == tasks[t].sink # "none" /\ ~tr.threw /\ tr.out # None
              caught == \/ tasks[t].sink # "none" /\ tr.threw
                        \/ offered /\ tasks[t].sink = "throwing"
          IN  tasks' = [tasks EXCEPT
                    ![t].messages = IF offered /\ ~caught THEN Append(@, message)
                                    ELSE @,
                    ![t].delivered = IF offered THEN Append(@, tr.out[1]) ELSE @,
                    ![t].callbackErrors = IF caught THEN @ + 1 ELSE @]
    /\ event' = NoEvent
    /\ UNCHANGED <<service, world, inits, sessionCleared>>

\* A loop body without the test of line 715: the message is translated
\* whether or not there is a sink.
IterateTranslatingAlways(t, message) ==
    LET tr == Translate(message)
        offered == tasks[t].sink # "none" /\ ~tr.threw /\ tr.out # None
        caught == \/ tr.threw
                  \/ offered /\ tasks[t].sink = "throwing"
    IN  tasks' = [tasks EXCEPT
              ![t].messages = Append(@, message),
              ![t].delivered = IF offered THEN Append(@, tr.out[1]) ELSE @,
              ![t].callbackErrors = IF caught THEN @ + 1 ELSE @]

\* The body of the for-await loop (lines 710-786) on `message`.
Iterate(t, message) ==
    LET tr == Translate(message)
        offered == tasks[t].sink # "none" /\ ~tr.threw /\ tr.out # None
        caught == \/ tasks[t].sink # "none" /\ tr.threw
                  \/ offered /\ tasks[t].sink = "throwing"
    IN  tasks' = [tasks EXCEPT
              ![t].messages = Append(@, message),
              ![t].delivered = IF offered THEN Append(@, tr.out[1]) ELSE @,
              ![t].callbackErrors = IF caught THEN @ + 1 ELSE @]

\* An iteration whose catch block leaves the loop: the query returns what
\* it has accumulated as soon as translation or the sink throws.
StreamYieldBreaking(t) ==
    /\ tasks[t].pc = "streaming"
    /\ TotalYielded < MaxMsgs
    /\ \E message \in StreamMessages :
          LET tr == Translate(message)
              offered == tasks[t].sink # "none" /\ ~tr.threw /\ tr.out # None
              caught == \/ tasks[t].sink # "none" /\ tr.threw
                        \/ offered /\ tasks[t].sink = "throwing"
              received == [tasks[t] EXCEPT
                    !.messages = Append(@, message),
                    !.delivered = IF offered THEN Append(@, tr.out[1]) ELSE @,
                    !.callbackErrors = IF caught THEN @ + 1 ELSE @]
          IN  IF caught
              THEN /\ tasks' = [tasks EXCEPT ![t] = DoneTask]
                   /\ event' = [NoEvent EXCEPT
                          !.type = "returned", !.task = t, !.op = "query",
                          !.messages = received.messages,
                          !.delivered = received.delivered,
                          !.callbackErrors = received.callbackErrors]
              ELSE /\ tasks' = [tasks EXCEPT ![t] = received]
                   /\ event' = NoEvent
    /\ UNCHANGED <<service, world, inits, sessionCleared>>

\* One iteration of the for-await loop (lines 709-787).
StreamYield(t) ==
    /\ tasks[t].pc = "streaming"
    /\ TotalYielded < MaxMsgs
    /\ \E message \in StreamMessages : Iterate(t, message)
    /\ event' = NoEvent
    /\ UNCHANGED <<service, world, inits, sessionCleared>>

\* The same iteration, on any message of the catalog.
StreamYieldAny(t) ==
    /\ tasks[t].pc = "streaming"
    /\ TotalYielded < MaxMsgs
    /\ \E message \in MessageCatalog : Iterate(t, message)
    /\ event' = NoEvent
    /\ UNCHANGED <<service, world, inits, sessionCleared>>

\* An end of stream that adopts a session id only when none is cached.
StreamEndFirstWriter(t) ==
    /\ tasks[t].pc = "streaming"
    /\ currentSessionId' = IF currentSessionId # None THEN currentSessionId
                           ELSE AdoptSessionId(tasks[t].messages, None)
    /\ tasks' = [tasks EXCEPT ![t] = DoneTask]
    /\ event' = [NoEvent EXCEPT !.type = "returned", !.task = t, !.op = "query",
                                !.messages = tasks[t].messages,
                                !.delivered = tasks[t].delivered,
                                !.callbackErrors = tasks[t].callbackErrors]
    /\ UNCHANGED <<isInitialized, initializationPromise, workingDirectory,
                   claudeCodeQuery, world, inits, sessionCleared>>

\* The stream ends: the session id is adopted and the accumulator returned
\* (lines 789-795).
StreamEnd(t) ==
    /\ tasks[t].pc = "streaming"
    /\ currentSessionId' = AdoptSessionId(tasks[t].messages, currentSessionId)
    /\ tasks' = [tasks EXCEPT ![t] = DoneTask]
    /\ event' = [NoEvent EXCEPT !.type = "returned", !.task = t, !.op = "query",
                                !.messages = tasks[t].messages,
                                !.delivered = tasks[t].delivered,
                                !.callbackErrors = tasks[t].callbackErrors]
    /\ UNCHANGED <<isInitialized, initializationPromise, workingDirectory,
                   claudeCodeQuery, world, inits, sessionCleared>>

\* A failing stream whose session id is adopted before the error is thrown.
StreamErrorAdopting(t) ==
    /\ tasks[t].pc = "streaming"
    /\ \E e \in StreamErrors : QueryCatch(t, e)
    /\ currentSessionId' = AdoptSessionId(tasks[t].messages, currentSessionId)
    /\ UNCHANGED <<isInitialized, initializationPromise, workingDirectory,
                   claudeCodeQuery, world, inits, sessionCleared>>

\* The stream raises.
StreamError(t) ==
    /\ tasks[t].pc = "streaming"
    /\ \E e \in StreamErrors : QueryCatch(t, e)
    /\ UNCHANGED <<service, world, inits, sessionCleared>>

\* waitForInitialization up to its first await.
WaitCall(t) ==
    /\ CanCall(t)
    /\ EnsureEnter(t, [NoTask EXCEPT !.op = "wait"], Called(t, "wait", None))
    /\ UNCHANGED <<processEnv, setting, sessionCleared>>

\* waitForInitialization resumes after ensureInitialized returned.
WaitReturn(t) ==
    /\ tasks[t].op = "wait"
    /\ tasks[t].pc = "ensured"
    /\ Returns(t, tasks[t], TRUE)
    /\ UNCHANGED <<service, world, inits, sessionCleared>>

\* refreshApiKey up to its first await (or its return).
RefreshCall(t) ==
    /\ CanCall(t)
    /\ IF apiKeySetting = ""
       THEN /\ Returns(t, [NoTask EXCEPT !.op = "refresh"], FALSE)
            /\ UNCHANGED <<workingDirectory, processEnv, dirs, files, inits>>
       ELSE /\ processEnv' = Some(apiKeySetting)
            /\ IF ~isInitialized
               THEN /\ StartInitialize(t, "refresh")
                    /\ tasks' = [tasks EXCEPT ![t] =
                            [NoTask EXCEPT !.op = "refresh", !.pc = "refreshAwait",
                                           !.awaiting = t]]
                    /\ event' = Called(t, "refresh", None)
               ELSE /\ Returns(t, [NoTask EXCEPT !.op = "refresh"], TRUE)
                    /\ UNCHANGED <<workingDirectory, dirs, files, inits>>
    /\ UNCHANGED <<isInitialized, initializationPromise, currentSessionId,
                   claudeCodeQuery, setting, sessionCleared>>

\* The await of line 844 resumes.
RefreshResume(t) ==
    /\ tasks[t].pc = "refreshAwait"
    /\ Settled(tasks[t].awaiting)
    /\ Returns(t, tasks[t], inits[tasks[t].awaiting].pc = "resolved")
    /\ inits' = Released(t)
    /\ UNCHANGED <<service, world, sessionCleared>>

\* clearSession().
ClearSession ==
    /\ currentSessionId' = None
    /\ sessionCleared' = Some(0)
    /\ event' = NoEvent
    /\ UNCHANGED <<isInitialized, initializationPromise, workingDirectory,
                   claudeCodeQuery, world, inits, tasks>>

(* --------------------------- the specification ------------------------- *)
\* The state after `new ClaudeCodeService(outputChannel)` in a given world
\* (env is the ANTHROPIC_API_KEY the process was started with): the
\* constructor has run initialize() up to its first await and holds its
\* promise.
ConstructedIn(folders, key, env, faulty, ds, fls) ==
    \E mkdirFails, statFails, writeFails \in (IF faulty THEN BOOLEAN ELSE {FALSE}) :
        LET s == setupWorkingDirectory(folders, ds, fls,
                                       mkdirFails, statFails, writeFails)
        IN  /\ isInitialized = FALSE
            /\ initializationPromise = Some(0)
            /\ workingDirectory = s.wd
            /\ currentSessionId = None
            /\ claudeCodeQuery = None
            /\ processEnv = env
            /\ apiKeySetting = key
            /\ workspaceFolders = folders
            /\ fsFaulty = faulty
            /\ dirs = s.dirs
            /\ files = s.files
            /\ inits = [a \in Attempts |->
                          IF a = 0
                          THEN [NoAttempt EXCEPT !.pc = "setup", !.by = "ctor",
                                                 !.warned = s.warned,
                                                 !.writeFailed = s.writeFailed,
                                                 !.setupThrew = s.threw]
                          ELSE NoAttempt]
            /\ tasks = [t \in Tasks |-> NoTask]
            /\ sessionCleared = None
            /\ event = NoEvent

\* The same, in a process started without the environment variable.
Constructed(folders, key, faulty, ds, fls) ==
    ConstructedIn(folders, key, None, faulty, ds, fls)

\* The service is constructed with or without a project open and with or
\* without an API key in the settings, on a working filesystem that holds
\* nothing of the service yet.
Init ==
    \E folders \in { <<>>, <<ProjectRoot>> }, key \in { "", ConfiguredKey } :
        Constructed(folders, key, FALSE, {}, NoOverrides)

Next ==
    \/ \E a \in Attempts : InitAfterSetup(a)
    \/ \E a \in Attempts : InitLocalImport(a)
    \/ \E a \in Attempts : InitStandardImport(a)
    \/ \E t \in Tasks : QueryCall(t)
    \/ \E t \in Tasks : WaitCall(t)
    \/ \E t \in Tasks : RefreshCall(t)
    \/ \E t \in Tasks : EnsureResume(t)
    \/ \E t \in Tasks : RetryResume(t)
    \/ \E t \in Tasks : QueryInvoke(t)
    \/ \E t \in Tasks : StreamYield(t)
    \/ \E t \in Tasks : StreamEnd(t)
    \/ \E t \in Tasks : StreamError(t)
    \/ \E t \in Tasks : WaitReturn(t)
    \/ \E t \in Tasks : RefreshResume(t)
    \/ ClearSession

Spec == Init /\ [][Next]_vars

(* ---------------------- the translation specification ------------------ *)
\* A ready service in a project, its first query consuming the SDK's stream
\* with the given sink: the state after construction, a successful
\* initialization and `query("make a login page", undefined, undefined,
\* undefined, sink)` up to the for-await loop.
Streaming(sink) ==
    /\ isInitialized = TRUE
    /\ initializationPromise = Some(0)
    /\ workingDirectory = SuperdesignDir
    /\ currentSessionId = None
    /\ claudeCodeQuery = Some("query")
    /\ processEnv = None
    /\ apiKeySetting = ""
    /\ workspaceFolders = <<ProjectRoot>>
    /\ fsFaulty = FALSE
    /\ dirs = {SuperdesignDir}
    /\ files = createClaudeMdFile(SuperdesignDir, NoOverrides, FALSE, FALSE).files
    /\ inits = [a \in Attempts |->
                  IF a = 0
                  THEN [NoAttempt EXCEPT !.pc = "resolved", !.by = "ctor",
                                         !.loaded = TRUE]
                  ELSE NoAttempt]
    /\ tasks = [t \in Tasks |->
                  IF t = 1
                  THEN [NoTask EXCEPT !.op = "query", !.pc = "streaming",
                                      !.prompt = "make a login page",
                                      !.sink = sink]
                  ELSE NoTask]
    /\ sessionCleared = None
    /\ event = [NoEvent EXCEPT
                  !.type = "sdkCall", !.task = 1, !.op = "query",
                  !.prompt = "make a login page",
                  !.options = FinalOptions(NoOverrides, SuperdesignDir, None)]

InitTranslate == \E sink \in Sinks : Streaming(sink)

NextTranslate ==
    \/ \E t \in Tasks : StreamYieldAny(t)
    \/ \E t \in Tasks : StreamEnd(t)
    \/ \E t \in Tasks : StreamError(t)

SpecTranslate == InitTranslate /\ [][NextTranslate]_vars

(* ------------------------ the prompt specification --------------------- *)
\* A ready service in a project, no call made yet: the state after
\* construction and a successful initialization.
InitPrompt ==
    /\ isInitialized = TRUE
    /\ initializationPromise = Some(0)
    /\ workingDirectory = SuperdesignDir
    /\ currentSessionId = None
    /\ claudeCodeQuery = Some("query")
    /\ processEnv = None
    /\ apiKeySetting = ""
    /\ workspaceFolders = <<ProjectRoot>>
    /\ fsFaulty = FALSE
    /\ dirs = {SuperdesignDir}
    /\ files = createClaudeMdFile(SuperdesignDir, NoOverrides, FALSE, FALSE).files
    /\ inits = [a \in Attempts |->
                  IF a = 0
                  THEN [NoAttempt EXCEPT !.pc = "resolved", !.by = "ctor",
                                         !.loaded = TRUE]
                  ELSE NoAttempt]
    /\ tasks = [t \in Tasks |-> NoTask]
    /\ sessionCleared = None
    /\ event = NoEvent

\* Queries are called with any prompt and any history of the catalog and
\* run to their end.
NextPrompt ==
    \/ \E t \in Tasks : QueryCallAny(t)
    \/ \E t \in Tasks : EnsureResume(t)
    \/ \E t \in Tasks : QueryInvoke(t)
    \/ \E t \in Tasks : StreamYield(t)
    \/ \E t \in Tasks : StreamEnd(t)
    \/ \E t \in Tasks : StreamError(t)

SpecPrompt == InitPrompt /\ [][NextPrompt]_vars

(* ----------------------- the API key specification -------------------- *)
\* The service is constructed in a project, with or without an API key in
\* the settings, in a process started with or without the environment
\* variable; it is initialized, possibly again by refreshApiKey or by a
\* retry, and queried.
InitKey ==
    \E key \in { "", ConfiguredKey }, env \in { None, Some(InheritedKey) } :
        ConstructedIn(<<ProjectRoot>>, key, env, FALSE, {}, NoOverrides)

NextKey ==
    \/ \E a \in Attempts : InitAfterSetup(a)
    \/ \E a \in Attempts : InitLocalImport(a)
    \/ \E a \in Attempts : InitStandardImport(a)
    \/ \E t \in Tasks : QueryCall(t)
    \/ \E t \in Tasks : RefreshCall(t)
    \/ \E t \in Tasks : EnsureResume(t)
    \/ \E t \in Tasks : RetryResume(t)
    \/ \E t \in Tasks : QueryInvoke(t)
    \/ \E t \in Tasks : StreamEnd(t)
    \/ \E t \in Tasks : StreamError(t)
    \/ \E t \in Tasks : RefreshResume(t)

SpecKey == InitKey /\ [][NextKey]_vars

(* ------------------------ the progress specification ------------------- *)
\* The service is constructed in a project and queried.  Fairness: an import
\* that was begun settles, a continuation whose await has settled is run by
\* the event loop, and a stream that is being consumed ends or raises (it
\* yields finitely many messages).  Nothing obliges a caller to call.
InitLive == Constructed(<<ProjectRoot>>, "", FALSE, {}, NoOverrides)

NextLive ==
    \/ \E a \in Attempts : InitAfterSetup(a)
    \/ \E a \in Attempts : InitLocalImport(a)
    \/ \E a \in Attempts : InitStandardImport(a)
    \/ \E t \in Tasks : QueryCall(t)
    \/ \E t \in Tasks : EnsureResume(t)
    \/ \E t \in Tasks : RetryResume(t)
    \/ \E t \in Tasks : QueryInvoke(t)
    \/ \E t \in Tasks : StreamYield(t)
    \/ \E t \in Tasks : StreamEnd(t)
    \/ \E t \in Tasks : StreamError(t)

FairLive ==
    /\ \A a \in Attempts :
          /\ WF_vars(InitAfterSetup(a))
          /\ WF_vars(InitLocalImport(a))
          /\ WF_vars(InitStandardImport(a))
    /\ \A t \in Tasks :
          /\ WF_vars(EnsureResume(t))
          /\ WF_vars(RetryResume(t))
          /\ WF_vars(QueryInvoke(t))
          /\ WF_vars(StreamEnd(t) \/ StreamError(t))

SpecLive == InitLive /\ [][NextLive]_vars /\ FairLive

(* ================================ properties =========================== *)
NoRefreshAttempt == \A a \in Attempts : inits[a].by # "refresh"
AttemptsInFlight == { a \in Attempts : InFlight(a) }

(* ---- C1 ---- *)
\* C1: leaving refreshApiKey aside, as long as the initialization started by
\* the constructor has not settled, every ensureInitialized caller (query or
\* waitForInitialization) is suspended on the constructor's promise and no
\* other initialization has been started, so the module-loading step has been
\* entered at most once; and a caller suspended on the constructor's promise
\* never starts an initialization when it resumes.
C1_CallersShare ==
    (~Settled(0) /\ NoRefreshAttempt) =>
        /\ \A a \in Attempts \ {0} : inits[a].pc = "none"
        /\ Cardinality({ a \in Attempts : inits[a].loaded }) <= 1
        /\ \A t \in Tasks : tasks[t].op \in {"query", "wait"} =>
                /\ tasks[t].pc = "ensureAwait"
                /\ tasks[t].awaiting = 0
C1_NoSecondStart ==
    \A t \in Tasks :
        (tasks[t].pc = "ensureAwait" /\ tasks[t].awaiting = 0
            /\ NoRefreshAttempt) => inits'[t].pc = "none"
C1_SingleLoad == []C1_CallersShare /\ [][C1_NoSecondStart]_vars

\* Two callers are suspended on the constructor's promise while its module
\* loading is under way.
C1_Witness ==
    /\ inits[0].pc \in {"import1", "import2", "import3", "importStd"}
    /\ NoRefreshAttempt
    /\ tasks[1].pc = "ensureAwait" /\ tasks[1].awaiting = 0
    /\ tasks[2].pc = "ensureAwait" /\ tasks[2].awaiting = 0

(* ---- C2 ---- *)
\* C2: in every reachable state at most one execution of initialize() is in
\* flight (started and not yet settled).
C2_AtMostOneInFlight == Cardinality(AttemptsInFlight) <= 1

(* ---- C3 ---- *)
\* C3: whenever query calls the SDK's query entry point, isInitialized is true
\* and the entry point is non-null.
C3_ReadyAtInvoke ==
    event.type = "sdkCall" => (isInitialized /\ claudeCodeQuery # None)

(* ---- C4 ---- *)
\* C4: the options query hands to the SDK carry a resume token if and only if
\* currentSessionId is non-empty when they are assembled, whatever the caller
\* passed as overrides.
C4_ResumeIffSession ==
    event.type = "sdkCall" =>
        (("resume" \in DOMAIN event.options) <=> (currentSessionId # None))

(* ---- C5 ---- *)
\* C5: the options assembled by the first query called after clearSession()
\* returned carry no resume token.
C5_FreshAfterClear ==
    [][(event'.type = "sdkCall" /\ sessionCleared = Some(event'.task))
          => "resume" \notin DOMAIN event'.options]_vars

(* ---- C6 ---- *)
\* C6: when a query's stream ends without error, currentSessionId becomes the
\* session id of the last accumulated message that carries a non-empty one,
\* and is left as it was when no message carries one.
C6_EndOfStream(t) ==
    LET messages == tasks[t].messages
        carrying == { i \in 1..Len(messages) : Truthy(messages[i].session_id) }
    IN  IF carrying = {}
        THEN currentSessionId' = currentSessionId
        ELSE \E i \in carrying :
                /\ \A j \in carrying : j <= i
                /\ currentSessionId' = Some(messages[i].session_id.v)
C6_AdoptsLastSessionId ==
    [][\A t \in Tasks :
          (tasks[t].pc = "streaming" /\ event'.type = "returned"
              /\ event'.task = t) => C6_EndOfStream(t)]_vars

\* A stream of a message with session id S1 followed by one without has
\* ended, and S1 is the session id.
C6_Witness ==
    /\ event.type = "returned" /\ event.op = "query"
    /\ event.messages = <<SystemInit, TextHello>>
    /\ currentSessionId = Some("S1")

(* ---- C7 ---- *)
\* C7: a query called with an empty or absent prompt and an empty or absent
\* history throws the missing-prompt error at once, whatever the state of the
\* service, and its frame is gone before any SDK call; the SDK is never
\* handed an empty prompt.
C7_MissingPrompt ==
    /\ (/\ event.op = "query" /\ event.type \in { "called", "threw" }
        /\ event.args # None
        /\ event.args[1].prompt \in { None, Some("") }
        /\ event.args[1].history \in { None, Some(<<>>) })
          => /\ event.type = "threw"
             /\ event.err = MissingPromptError
             /\ tasks[event.task] = DoneTask
    /\ event.type = "sdkCall" => event.prompt # ""

\* The call was made on a ready service and threw the missing-prompt error.
C7_Witness ==
    /\ event.type = "threw" /\ event.err = MissingPromptError
    /\ event.args = Some([prompt |-> Some(""), history |-> Some(<<>>)])
    /\ isInitialized

(* ---- C8 ---- *)
\* C8: a failing initialization leaves initializationPromise null and
\* isInitialized false; whenever the service is uninitialized and no
\* initialization is in flight the promise is null; an ensureInitialized
\* caller entering then starts exactly one initialization, its own, and fails
\* only if that one is rejected.
C8_ResetOnFailure ==
    /\ event.type = "initFailed" => (initializationPromise = None /\ ~isInitialized)
    /\ (~isInitialized /\ AttemptsInFlight = {}) => initializationPromise = None
C8_RetryOnce ==
    \A t \in Tasks :
        /\ (/\ ~isInitialized /\ AttemptsInFlight = {}
            /\ tasks[t].op = "none"
            /\ event'.type = "called" /\ event'.task = t
            /\ event'.op \in {"query", "wait"})
              => /\ tasks'[t].pc = "retryAwait" /\ tasks'[t].awaiting = t
                 /\ initializationPromise' = Some(t)
                 /\ inits'[t].pc = "setup"
                 /\ \A a \in Attempts \ {t} : inits'[a] = inits[a]
        /\ (tasks[t].pc = "retryAwait" /\ tasks'[t] # tasks[t])
              => IF inits[t].pc = "rejected"
                 THEN tasks'[t] = DoneTask
                 ELSE tasks'[t].pc = "ensured"
C8_FailureThenRetry == []C8_ResetOnFailure /\ [][C8_RetryOnce]_vars

\* The constructor's initialization failed, and the one a later caller
\* started succeeded.
C8_Witness ==
    /\ inits[0].pc = "rejected"
    /\ NoRefreshAttempt
    /\ isInitialized
    /\ \E t \in Tasks : inits[t].by = "ensure" /\ inits[t].pc = "resolved"

(* ---- C9 ---- *)
\* C9: once isInitialized is true, no step sets it back to false.
C9_ReadyIsAbsorbing == [][isInitialized => isInitialized']_vars

(* ---- C10 ---- *)
\* C10: in every iteration of the consumption loop, whatever was caught in
\* earlier iterations, the message is received and, when a sink was passed and
\* translation builds a message without throwing, offered to the sink, and
\* the query goes on consuming; a query throws out of the loop only with an
\* error of the SDK's stream, never with one caught at a message.
C10_Iteration(t) ==
    \E message \in StreamMessages :
        /\ tasks'[t].messages = Append(tasks[t].messages, message)
        /\ tasks'[t].pc = "streaming"
        /\ event'.type # "threw"
        /\ tasks'[t].delivered =
              IF /\ tasks[t].sink # "none"
                 /\ ~Translate(message).threw
                 /\ Translate(message).out # None
              THEN Append(tasks[t].delivered, Translate(message).out[1])
              ELSE tasks[t].delivered
C10_FailureIsLocal ==
    [][\A t \in Tasks :
          (tasks[t].pc = "streaming" /\ tasks'[t] # tasks[t]) =>
              \/ C10_Iteration(t)
              \/ event'.type = "returned" /\ event'.task = t
              \/ /\ event'.type = "threw" /\ event'.task = t
                 /\ event'.err \in StreamErrors
                 /\ event'.messages = tasks[t].messages]_vars

\* A query returned after the translation of its first message threw and
\* its second message was offered to the sink.
C10_Witness ==
    /\ event.type = "returned" /\ event.op = "query"
    /\ event.messages = <<TextNumber, TextHello>>
    /\ event.callbackErrors = 1
    /\ event.delivered = <<TextMessage("assistant", Str("hello"))>>

(* ------------------------- the setup specification -------------------- *)
\* The filesystems the service can be constructed on: the project's
\* .superdesign folder and the temp folder may exist already, each with or
\* without a CLAUDE.md put there by the user.
SetupDirs == { SuperdesignDir, TempDir }
Filesystems ==
    { [dirs |-> ds, files |-> [d \in withFile |-> File(UserMdContent, 0)]] :
        ds \in SUBSET SetupDirs, withFile \in SUBSET SetupDirs }
InitialFilesystems == { f \in Filesystems : DOMAIN f.files \subseteq f.dirs }

\* The service is constructed on any of these filesystems, whose calls can
\* fail; initialization runs, and waitForInitialization callers await it or
\* retry it.
InitSetup ==
    \E folders \in { <<>>, <<ProjectRoot>> }, f \in InitialFilesystems :
        Constructed(folders, "", TRUE, f.dirs, f.files)

NextSetup ==
    \/ \E a \in Attempts : InitAfterSetup(a)
    \/ \E a \in Attempts : InitLocalImport(a)
    \/ \E a \in Attempts : InitStandardImport(a)
    \/ \E t \in Tasks : WaitCall(t)
    \/ \E t \in Tasks : EnsureResume(t)
    \/ \E t \in Tasks : RetryResume(t)
    \/ \E t \in Tasks : WaitReturn(t)

SpecSetup == InitSetup /\ [][NextSetup]_vars

(* ---------------------- the classifier specification ------------------ *)
\* The listed patterns, each with three spellings of it.
PatternSpellings ==
    { [pattern |-> "authentication failed",
       spellings |-> {"authentication failed", "AUTHENTICATION FAILED",
                      "Authentication Failed"}],
      [pattern |-> "invalid api key",
       spellings |-> {"invalid api key", "INVALID API KEY", "Invalid API key"}],
      [pattern |-> "unauthorized",
       spellings |-> {"unauthorized", "UNAUTHORIZED", "Unauthorized"}],
      [pattern |-> "authentication error",
       spellings |-> {"authentication error", "AUTHENTICATION ERROR",
                      "Authentication Error"}],
      [pattern |-> "invalid token",
       spellings |-> {"invalid token", "INVALID TOKEN", "Invalid Token"}],
      [pattern |-> "access denied",
       spellings |-> {"access denied", "ACCESS DENIED", "Access Denied"}],
      [pattern |-> "401",
       spellings |-> {"401", "401 Unauthorized", "status 401"}],
      [pattern |-> "ANTHROPIC_API_KEY",
       spellings |-> {"anthropic_api_key", "ANTHROPIC_API_KEY",
                      "Anthropic_Api_Key"}] }
MessageHeads == { "", "Error: ", "Claude Code process exited: " }
MessageTails == { "", " (see the output channel)" }
\* Messages that hold none of the listed patterns in any spelling.
OtherMessages ==
    { "disk full", "ENOENT: no such file or directory", "network timeout",
      "Claude Code process exited with code 1", "rate limit exceeded" }

\* What isApiKeyAuthError is given: the text, and the listed pattern it was
\* built around ("" when none).
ClassifierInputs ==
    UNION { { [text |-> head \o spelling \o tail, pattern |-> p.pattern] :
                head \in MessageHeads, spelling \in p.spellings,
                tail \in MessageTails } : p \in PatternSpellings }
      \cup { [text |-> head \o other \o tail, pattern |-> ""] :
                head \in MessageHeads, other \in OtherMessages,
                tail \in MessageTails }

\* isApiKeyAuthError of each input's text, computed once.
ClassifiedAs == [input \in ClassifierInputs |-> isApiKeyAuthError(input.text)]

\* isApiKeyAuthError(errorMessage) is called (it is public and reads no state).
Classify ==
    /\ \E input \in ClassifierInputs :
          event' = [NoEvent EXCEPT
                      !.type = "classified", !.op = "isApiKeyAuthError",
                      !.args = Some([pattern |-> input.pattern]),
                      !.err = input.text,
                      !.value = ClassifiedAs[input]]
    /\ UNCHANGED <<service, world, inits, tasks, sessionCleared>>

InitClassify == Constructed(<<ProjectRoot>>, "", FALSE, {}, NoOverrides)
NextClassify == Classify
SpecClassify == InitClassify /\ [][NextClassify]_vars

(* ---- C11 ---- *)
\* C11: every iteration of the consumption loop appends the message it was
\* given to the accumulator, with or without a sink and whatever translation
\* did with the message, and a query whose stream ends returns the
\* accumulator as it is.
C11_Step(t) ==
    /\ (tasks'[t].pc = "streaming" /\ tasks'[t] # tasks[t]) =>
            \E message \in StreamMessages :
                tasks'[t].messages = Append(tasks[t].messages, message)
    /\ (event'.type = "returned" /\ event'.task = t) =>
            event'.messages = tasks[t].messages
C11_ReturnsAllInOrder ==
    [][\A t \in Tasks : tasks[t].pc = "streaming" => C11_Step(t)]_vars

\* A query with a sink returned both of its messages: the first, whose
\* translation threw, and the second, which translation dropped.
C11_Witness ==
    /\ event.type = "returned" /\ event.op = "query"
    /\ event.messages = <<TextNumber, SystemInit>>
    /\ event.callbackErrors = 1
    /\ event.delivered = <<>>

(* ---- C12 ---- *)
LastMessage(t) == tasks'[t].messages[Len(tasks'[t].messages)]
Iterated(t) ==
    /\ tasks[t].pc = "streaming"
    /\ Len(tasks'[t].messages) = Len(tasks[t].messages) + 1
\* C12 (as stated): for every message with tag text, whatever its text field,
\* the sink is given exactly one message, of role assistant and with the text
\* field as content.
C12_EveryTextDelivered ==
    [][\A t \in Tasks :
          (Iterated(t) /\ tasks[t].sink # "none"
              /\ LastMessage(t).type = "text") =>
              tasks'[t].delivered =
                  Append(tasks[t].delivered,
                         TextMessage("assistant", LastMessage(t).text))]_vars
\* C12 (amended): for every message with tag text whose text field is a
\* non-empty string, the sink is given exactly one message, of role assistant
\* and with the text field as content.
C12_TextDelivered ==
    [][\A t \in Tasks :
          (Iterated(t) /\ tasks[t].sink # "none"
              /\ LastMessage(t).type = "text"
              /\ LastMessage(t).text.t = "string"
              /\ LastMessage(t).text.v # "") =>
              tasks'[t].delivered =
                  Append(tasks[t].delivered,
                         TextMessage("assistant", LastMessage(t).text))]_vars

\* The sink was given the message of a text "hello" that came second.
C12_Witness ==
    /\ tasks[1].sink = "collecting"
    /\ tasks[1].messages = <<Bogus, TextHello>>
    /\ tasks[1].delivered = <<TextMessage("assistant", Str("hello"))>>

(* ---- C13 ---- *)
KnownTags == { "text", "tool_use", "tool_result", "assistant", "result" }
\* C13: an iteration on a message whose tag is none of text, tool_use,
\* tool_result, assistant, result gives the sink nothing and catches no
\* error; the message is accumulated and the query goes on consuming.
C13_UnknownTagDropped ==
    [][\A t \in Tasks :
          (Iterated(t) /\ LastMessage(t).type \notin KnownTags) =>
              /\ tasks'[t].delivered = tasks[t].delivered
              /\ tasks'[t].callbackErrors = tasks[t].callbackErrors
              /\ tasks'[t].messages = Append(tasks[t].messages, LastMessage(t))
              /\ tasks'[t].pc = "streaming"
              /\ event'.type = "none"]_vars

\* A query with a sink returned a stream of an unknown message and a text:
\* only the text reached the sink and nothing was caught.
C13_Witness ==
    /\ event.type = "returned" /\ event.op = "query"
    /\ event.messages = <<Bogus, TextHello>>
    /\ event.delivered = <<TextMessage("assistant", Str("hello"))>>
    /\ event.callbackErrors = 0

(* ---- C14 ---- *)
\* C14: isApiKeyAuthError returns true for every message that mentions the
\* name ANTHROPIC_API_KEY, in any letter case.
C14_EnvVarNameIsAuth ==
    (event.type = "classified"
        /\ event.args = Some([pattern |-> "ANTHROPIC_API_KEY"])) => event.value

(* ---- C15 ---- *)
AuthPhrases ==
    { "authentication failed", "invalid api key", "unauthorized",
      "authentication error", "invalid token", "access denied", "401" }
\* C15: isApiKeyAuthError returns true for every message that holds one of
\* the seven phrases in any letter case, and false for every message that
\* holds none of the listed patterns.
C15_PhrasesClassified ==
    event.type = "classified" =>
        /\ event.args[1].pattern \in AuthPhrases => event.value
        /\ event.args[1].pattern = "" => ~event.value

\* "Error: 401 Unauthorized" was classified as an authentication error.
C15_Witness ==
    /\ event.type = "classified"
    /\ event.err = "Error: 401 Unauthorized"
    /\ event.value

\* The classification the pattern list stands for: a message is an
\* authentication error when it holds one of the listed patterns, letter case
\* aside.
AuthErrorMeant ==
    [m \in ErrorTexts |->
        \E k \in 1..Len(authErrorPatterns) :
            Includes(ToLowerCase(m), ToLowerCase(authErrorPatterns[k]))]

(* ---- C16 ---- *)
\* C16: a query that ends on an error of the SDK call, raised on invocation
\* or mid-stream, throws that error, and showErrorMessage was called before
\* if and only if the error's message is not an authentication error.
C16_QueryErrorNotified ==
    (event.type = "threw" /\ event.op = "query" /\ event.err \in StreamErrors)
        => event.popup = ~AuthErrorMeant[event.err]

(* ---- C17 ---- *)
\* C17: when an initialization fails, every call suspended on it finds its
\* error, and showErrorMessage was called exactly when the error's message is
\* not an authentication error.
C17_InitFailureNotified ==
    event.type = "initFailed" =>
        /\ event.popup = ~AuthErrorMeant[event.err]
        /\ inits[event.task].pc = "rejected"
        /\ \A t \in Tasks :
              (tasks[t].pc \in AwaitPcs /\ tasks[t].awaiting = event.task)
                  => inits[event.task].err = event.err

(* ---- C18 ---- *)
\* C18: waitForInitialization never throws; it ends by returning true when
\* its ensureInitialized returned, and by returning false when its
\* ensureInitialized threw (a rejected initialization, or 'not initialized').
C18_Outcome ==
    \A t \in Tasks :
        (tasks[t].op = "wait" /\ tasks'[t] = DoneTask) =>
            /\ event'.type = "returned" /\ event'.task = t
            /\ event'.op = "wait"
            /\ event'.value = (tasks[t].pc = "ensured")
C18_WaitNeverThrows ==
    /\ [](event.op = "wait" => event.type \in {"called", "returned"})
    /\ [][C18_Outcome]_vars

\* A waitForInitialization returned false after the initialization it
\* awaited was rejected.
C18_Witness ==
    /\ event.type = "returned" /\ event.op = "wait" /\ ~event.value
    /\ \E a \in Attempts : inits[a].pc = "rejected"

(* ---- C19 ---- *)
\* C19: no setupWorkingDirectory throws, whichever filesystem call failed in
\* it, and the working directory is always set: to the project's .superdesign
\* folder when a project is open, to the temp folder when none is, and to
\* the process's current directory when a step of the setup failed.
C19_SetupNeverThrows ==
    /\ \A a \in Attempts : ~inits[a].setupThrew
    /\ \/ workingDirectory = Cwd
       \/ /\ workspaceFolders # <<>>
          /\ workingDirectory = workspaceFolders[1] \o "/.superdesign"
          /\ workingDirectory \in dirs
       \/ /\ workspaceFolders = <<>>
          /\ workingDirectory = TempDir
          /\ workingDirectory \in dirs

\* With a project open, creating its .superdesign folder failed in the
\* constructor's setup and in a retry's setup: the working directory is the
\* current directory.
C19_Witness ==
    /\ workspaceFolders = <<ProjectRoot>>
    /\ SuperdesignDir \notin dirs
    /\ workingDirectory = Cwd
    /\ \E t \in Tasks : inits[t].by = "ensure" /\ inits[t].pc # "none"

(* ---- C20 ---- *)
\* C20: a CLAUDE.md that exists is never touched again: no step changes or
\* rewrites it, and the service writes a file at most once.
C20_FilesKept ==
    \A d \in DOMAIN files : d \in DOMAIN files' /\ files'[d] = files[d]
C20_WrittenOnce ==
    /\ [](\A d \in DOMAIN files : files[d].writes <= 1)
    /\ [][C20_FilesKept]_vars

\* The user's CLAUDE.md is in the working directory as it was, after the
\* setup of the constructor and the setup of a retry.
C20_Witness ==
    /\ workingDirectory = SuperdesignDir
    /\ SuperdesignDir \in DOMAIN files
    /\ files[SuperdesignDir] = File(UserMdContent, 0)
    /\ \E t \in Tasks : inits[t].by = "ensure" /\ inits[t].pc # "none"

(* ---- C21 ---- *)
\* The setup whose outcome the state shows: the one of the attempt suspended
\* at `await this.setupWorkingDirectory()`.
JustSetUp(a) == inits[a].pc = "setup"

\* C21 as stated: without a project root, when the temp subfolder exists or
\* could be created, the working directory is the temp subfolder and the
\* warning was shown; with a project root, the working directory is the
\* .superdesign folder of the first root and no warning was shown.
C21_TierChosen ==
    \A a \in Attempts : JustSetUp(a) =>
        /\ (workspaceFolders = <<>> /\ TempDir \in dirs) =>
              (workingDirectory = TempDir /\ inits[a].warned)
        /\ workspaceFolders # <<>> =>
              /\ workingDirectory = workspaceFolders[1] \o "/.superdesign"
              /\ ~inits[a].warned

\* C21, amended: unless the setup fell back to the process's current
\* directory (creating the folder, or the stat of a CLAUDE.md that exists,
\* threw), the working directory is the temp subfolder without a project
\* root and the .superdesign folder of the first root with one; the warning
\* was shown exactly when the working directory ended as the temp subfolder.
C21_TierUnlessFallback ==
    \A a \in Attempts : JustSetUp(a) =>
        /\ workingDirectory # Cwd =>
              /\ workingDirectory \in dirs
              /\ workingDirectory = IF workspaceFolders = <<>> THEN TempDir
                                    ELSE workspaceFolders[1] \o "/.superdesign"
        /\ inits[a].warned = (workingDirectory = TempDir)

\* A retry's setup, without a project root, created the temp subfolder and
\* showed the warning.
C21_Witness ==
    /\ workspaceFolders = <<>>
    /\ \E t \in Tasks :
          /\ JustSetUp(t) /\ inits[t].by = "ensure" /\ inits[t].warned
    /\ workingDirectory = TempDir
    /\ TempDir \in dirs

(* ---- C22 ---- *)
\* The prompts the statement gives for the histories of the catalog whose
\* turns hold string or multi-part content.
C22_Expected ==
    [h \in {HistoryHi, HistoryParts, HistoryOne} |->
        CASE h = HistoryHi -> "user: hi\n\nassistant: hello"
          [] h = HistoryParts ->
                "user: what is [image]?\n\nassistant: [tool-call]\n\nuser: "
          [] h = HistoryOne -> "user: "]

\* Call t of query was made without a prompt and with a history of string
\* and multi-part turns: the prompt it holds is the one the statement gives.
C22_Resolved ==
    (event'.type = "called" /\ event'.op = "query"
        /\ event'.args[1].prompt \in {None, Some("")}
        /\ event'.args[1].history # None
        /\ event'.args[1].history[1] \in DOMAIN C22_Expected)
    => tasks'[event'.task].prompt = C22_Expected[event'.args[1].history[1]]

\* The prompt of an SDK call is the prompt its query resolved.
C22_Sent ==
    event'.type = "sdkCall" => event'.prompt = tasks[event'.task].prompt

\* C22: when the prompt is absent and the history is not empty, the prompt
\* sent to the SDK is the turns in order, each "<role>: <content>", joined by
\* a blank line; string content verbatim, text parts as their text, other
\* parts as their type in brackets.
C22_HistoryFlattened == [][C22_Resolved /\ C22_Sent]_vars

\* The SDK was called with the flattened multi-part history.
C22_Witness ==
    /\ event.type = "sdkCall"
    /\ event.prompt = C22_Expected[HistoryParts]

(* ---- C23 ---- *)
\* The fixed defaults of the options, as the statement lists them.
C23_Defaults ==
    [maxTurns |-> 999, allowedTools |-> allowedTools,
     permissionMode |-> "acceptEdits", cwd |-> workingDirectory,
     customSystemPrompt |-> SystemPrompt]

\* C23 as stated: in the options of an SDK call every key the caller
\* supplied has the caller's value, the resume token included, and every
\* default the caller did not supply has its fixed value.
C23_CallerWins ==
    event.type = "sdkCall" =>
        /\ \A k \in DOMAIN event.args[1].options :
              event.options[k] = event.args[1].options[k]
        /\ \A k \in DOMAIN C23_Defaults \ DOMAIN event.args[1].options :
              event.options[k] = C23_Defaults[k]

\* C23, amended: every key the caller supplied other than the resume token
\* has the caller's value, every default the caller did not supply has its
\* fixed value, and the resume token is the cached session id whenever one
\* is cached, whatever the caller supplied.
C23_CallerWinsButResume ==
    event.type = "sdkCall" =>
        /\ \A k \in DOMAIN event.args[1].options \ {"resume"} :
              event.options[k] = event.args[1].options[k]
        /\ \A k \in DOMAIN C23_Defaults \ DOMAIN event.args[1].options :
              event.options[k] = C23_Defaults[k]
        /\ currentSessionId # None =>
              /\ "resume" \in DOMAIN event.options
              /\ event.options.resume = currentSessionId[1]

\* The SDK was called with a caller's working directory and permission
\* mode while a session id was cached.
C23_Witness ==
    /\ event.type = "sdkCall"
    /\ event.args = Some([options |-> [cwd |-> "/elsewhere",
                                        permissionMode |-> "plan"]])
    /\ event.options.cwd = "/elsewhere"
    /\ event.options.permissionMode = "plan"
    /\ event.options.maxTurns = 999
    /\ currentSessionId # None

(* ---- C24 ---- *)
\* The messages of query t's accumulator that carry a session id.
C24_Carrying(t) ==
    { i \in 1..Len(tasks[t].messages) :
        Truthy(tasks[t].messages[i].session_id) }
\* Query u overlaps the streaming query t: it is streaming too, or it has
\* just returned a stream that carried a session id.
C24_Overlaps(t, u) ==
    \/ tasks[u].pc = "streaming"
    \/ /\ tasks[u] = DoneTask
       /\ event.type = "returned" /\ event.op = "query" /\ event.task = u
       /\ \E i \in 1..Len(event.messages) :
             Truthy(event.messages[i].session_id)
C24_EndWhileOverlapping ==
    \A t, u \in Tasks :
        (t # u /\ tasks[t].pc = "streaming" /\ C24_Carrying(t) # {}
             /\ C24_Overlaps(t, u)
             /\ event'.type = "returned" /\ event'.task = t)
        => \E i \in C24_Carrying(t) :
              /\ \A j \in C24_Carrying(t) : j <= i
              /\ currentSessionId' =
                    Some(tasks[t].messages[i].session_id.v)

\* C24: of two overlapping queries whose streams carry a session id, each
\* one's end of stream makes its own id the session id, whether the other is
\* still streaming or has ended just before, so that after both the session
\* id is that of the query whose stream ended last, whichever was called
\* first.
C24_LastWriterWins == [][C24_EndWhileOverlapping]_vars

\* Query 2 has ended and its S1 is the session id while query 1, called
\* before it, is still streaming and holds a message with S2: the end of
\* query 1's stream is the last write.
C24_Witness ==
    /\ event.type = "returned" /\ event.op = "query" /\ event.task = 2
    /\ event.messages = <<SystemInit>>
    /\ currentSessionId = Some("S1")
    /\ tasks[1].pc = "streaming"
    /\ tasks[1].messages = <<ResultDone>>

(* ---- C25 ---- *)
\* C25: a query that throws, before the SDK call, on its invocation or in
\* the middle of its stream, leaves currentSessionId as it was, whatever
\* session ids its accumulator holds; a session id is set only by a query
\* that returns.
C25_FailureKeepsSession ==
    [][/\ (event'.type = "threw" /\ event'.op = "query")
            => currentSessionId' = currentSessionId
       /\ (currentSessionId' # currentSessionId /\ currentSessionId' # None)
            => (event'.type = "returned" /\ event'.op = "query")]_vars

\* A query threw in the middle of a stream whose first message carried S1,
\* and no session id is cached.
C25_Witness ==
    /\ event.type = "threw" /\ event.op = "query"
    /\ event.err \in StreamErrors
    /\ event.messages = <<SystemInit>>
    /\ currentSessionId = None
    /\ sessionCleared = None

(* ---- C26 ---- *)
\* A step of an initialization attempt: one is started or one moves on.
C26_InitStep == inits' # inits
\* C26: no step of an initialization attempt, whoever started it and however
\* it ends, changes currentSessionId; it changes only when a query returns
\* and when clearSession is called.
C26_InitKeepsSession ==
    [][/\ C26_InitStep => currentSessionId' = currentSessionId
       /\ currentSessionId' # currentSessionId =>
             \/ event'.type = "returned" /\ event'.op = "query"
             \/ currentSessionId' = None /\ sessionCleared' = Some(0)]_vars

\* An initialization started by refreshApiKey has failed while S1 was the
\* session id, and S1 still is.
C26_Witness ==
    /\ event.type = "initFailed"
    /\ inits[event.task].by = "refresh"
    /\ currentSessionId = Some("S1")

(* ---- C27 ---- *)
\* The place of an attempt in the resolver: the candidates in their listed
\* order, then the standard import, then the end of the attempt.
C27_Rank(pc) ==
    CASE pc = "import1" -> 1
      [] pc = "import2" -> 2
      [] pc = "import3" -> 3
      [] pc = "importStd" -> 4
      [] pc \in {"resolved", "rejected"} -> 5
      [] OTHER -> 0
\* Attempt a goes through the candidates: it starts at the first one after
\* the setup and at the one after the candidate whose load failed, imports
\* the first of them that exists, and imports the standard package when
\* none of them exists.
C27_Probe(a) ==
    LET from == event'.args[1].from
        exists == event'.args[1].exists
    IN  /\ from = IF inits[a].pc = "setup" THEN 1
                  ELSE C27_Rank(inits[a].pc) + 1
        /\ \A i \in from..3 :
              (exists[i] /\ \A j \in from..(i - 1) : ~exists[j])
                  => C27_Rank(inits'[a].pc) = i
        /\ (\A i \in from..3 : ~exists[i]) => inits'[a].pc = "importStd"
\* A step of attempt a in the resolver: a probe, or the end of the attempt
\* by the load of the module it was importing.
C27_Step(a) ==
    (/\ inits'[a] # inits[a]
     /\ \/ C27_Rank(inits[a].pc) \in 1..4
        \/ inits[a].pc = "setup" /\ ~inits[a].setupThrew)
    => IF event'.type = "probed"
       THEN event'.task = a /\ C27_Probe(a)
       ELSE /\ C27_Rank(inits'[a].pc) = 5
            /\ inits'[a].pc = "resolved" =>
                  (isInitialized' /\ claudeCodeQuery' # None)

\* C27: the resolver imports the local candidates in their listed order,
\* passing over the ones that are absent and going on after a load that
\* failed; it imports the standard package only when no candidate is left;
\* and the load of a module ends the attempt, no other candidate being
\* tried after it.
C27_ResolverOrder ==
    [][\A a \in Attempts :
          /\ C27_Step(a)
          /\ C27_Rank(inits[a].pc) = 5 => inits'[a].pc = inits[a].pc]_vars

\* The first candidate was absent, the load of the second failed, and the
\* third being absent too the attempt is at the standard import.
C27_Witness ==
    /\ event.type = "probed"
    /\ event.args[1].from = 3
    /\ ~event.args[1].exists[3]
    /\ inits[event.task].pc = "importStd"

(* ---- C28 ---- *)
\* The errors of an attempt whose standard import failed or whose module
\* has no query function.
C28_Errors ==
    { ImportFailed(cause) : cause \in ImportErrors }
        \cup { ImportFailed(QueryNotFoundError) }
\* An import of attempt a settles: the attempt either resolves with the
\* query function in place, or fails with one of these errors, and then the
\* service is uninitialized and holds no promise.
C28_ImportSettles(a) ==
    (C27_Rank(inits[a].pc) \in 1..4 /\ C27_Rank(inits'[a].pc) = 5) =>
        \/ /\ inits'[a].pc = "resolved"
           /\ isInitialized' /\ claudeCodeQuery' = Some("query")
        \/ /\ inits'[a].pc = "rejected"
           /\ event'.type = "initFailed" /\ event'.task = a
           /\ event'.err \in C28_Errors
           /\ ~isInitialized' /\ initializationPromise' = None
\* The ensureInitialized caller that comes next after such a failure starts
\* a new attempt and awaits it.
C28_Retried(t) ==
    (/\ event.type = "initFailed" /\ event.err \in C28_Errors
     /\ event'.type = "called" /\ event'.task = t
     /\ event'.op \in {"query", "wait"})
    => /\ inits[t].pc = "none" /\ inits'[t].pc = "setup"
       /\ initializationPromise' = Some(t)
       /\ tasks'[t].pc = "retryAwait" /\ tasks'[t].awaiting = t

\* C28: when the standard import fails, or the module that was loaded has
\* no query function, the attempt fails, leaving isInitialized false and
\* the promise reset, and the next ensureInitialized caller retries.
C28_ImportFailureRetryable ==
    [][/\ \A a \in Attempts : C28_ImportSettles(a)
       /\ \A t \in Tasks : C28_Retried(t)]_vars

\* The constructor's attempt loaded a module without a query function and
\* failed; the caller that came next has started a new attempt.
C28_Witness ==
    /\ inits[0].pc = "rejected"
    /\ inits[0].err = ImportFailed(QueryNotFoundError)
    /\ event.type = "called" /\ event.op = "wait"
    /\ inits[event.task].pc = "setup" /\ inits[event.task].by = "ensure"
    /\ initializationPromise = Some(event.task)
    /\ claudeCodeQuery = None

(* ---- C29 ---- *)
\* C29: after a setup, whichever of its three tiers gave the working
\* directory (the project's .superdesign folder, the temp folder, the
\* process's current directory), CLAUDE.md exists in the working directory
\* unless the setup's write of it failed.
C29_ConfigInWorkingDirectory ==
    \A a \in Attempts : JustSetUp(a) =>
        (workingDirectory \in DOMAIN files \/ inits[a].writeFailed)

(* ---- C30 ---- *)
\* Attempt a resumes after its setup: the key of the settings, if there is
\* one, is in the environment variable before the first import is begun,
\* and the variable is as it was if there is none.
C30_Export(a) ==
    (inits[a].pc = "setup" /\ C27_Rank(inits'[a].pc) \in 1..4) =>
        processEnv' = IF apiKeySetting # "" THEN Some(apiKeySetting)
                      ELSE processEnv
\* With a key in the settings, the variable holds it whenever a module is
\* being imported and whenever the SDK is called.
C30_ExportedBefore ==
    apiKeySetting # "" =>
        /\ \A a \in Attempts :
              C27_Rank(inits[a].pc) \in 1..4 => processEnv = Some(apiKeySetting)
        /\ event.type = "sdkCall" => processEnv = Some(apiKeySetting)

\* C30: a key configured in the settings is exported to ANTHROPIC_API_KEY
\* before the SDK module is imported and before the SDK is called; without
\* a key in the settings no step of an initialization changes the variable.
C30_KeyExportedFirst ==
    /\ []C30_ExportedBefore
    /\ [][/\ \A a \in Attempts : C30_Export(a)
          /\ (apiKeySetting = "" /\ inits' # inits)
                => processEnv' = processEnv]_vars

\* The SDK is called with the key of the settings in the variable, in a
\* process that was started with another key in it.
C30_Witness ==
    /\ event.type = "sdkCall"
    /\ apiKeySetting = ConfiguredKey
    /\ processEnv = Some(ConfiguredKey)
    /\ \A t \in Tasks : tasks[t].op # "refresh"

(* ---- C31 ---- *)
\* An iteration of query t, which has a sink, on a message with tag assistant
\* that wraps a message.
C31_Case(t) ==
    /\ Iterated(t) /\ tasks[t].sink # "none"
    /\ LastMessage(t).type = "assistant"
    /\ Truthy(LastMessage(t).message)
\* C31 as stated, however "it" is read: the sink is given one message of role
\* assistant whose content is the content of the wrapped message, or is the
\* wrapped value itself when the wrapped value, or its content, is not a
\* string.
C31_WrappedContentOrValue ==
    [][\A t \in Tasks : C31_Case(t) =>
          \/ tasks'[t].delivered =
                Append(tasks[t].delivered,
                       TextMessage("assistant", LastMessage(t).messageContent))
          \/ /\ tasks'[t].delivered =
                   Append(tasks[t].delivered,
                          TextMessage("assistant", LastMessage(t).message))
             /\ \/ LastMessage(t).message.t # "string"
                \/ LastMessage(t).messageContent.t # "string"]_vars

\* C31, amended: the sink is given exactly one message of role assistant
\* whose content is the wrapped value itself when it is a string, and
\* otherwise the content of the wrapped message, or the empty string when it
\* has none.
C31_AssistantDelivered ==
    [][\A t \in Tasks : C31_Case(t) =>
          tasks'[t].delivered =
              Append(tasks[t].delivered,
                     TextMessage("assistant",
                        IF LastMessage(t).message.t = "string"
                        THEN LastMessage(t).message
                        ELSE IF Truthy(LastMessage(t).messageContent)
                             THEN LastMessage(t).messageContent
                             ELSE Str("")))]_vars

\* The sink was given the string of an assistant message that is a string,
\* then the empty string for one that wraps an object without content.
C31_Witness ==
    /\ tasks[1].sink = "collecting"
    /\ tasks[1].messages = <<AssistantString, AssistantBare>>
    /\ tasks[1].delivered = << TextMessage("assistant", Str("hi there")),
                               TextMessage("assistant", Str("")) >>

(* ---- C32 ---- *)
\* An iteration of query t, which has a sink, on a message with tag result.
C32_Case(t) ==
    /\ Iterated(t) /\ tasks[t].sink # "none"
    /\ LastMessage(t).type = "result"
\* What a result message carries: its content if that is not empty (not
\* absent, "", 0, null), else its result.
C32_Payload(message) ==
    IF Truthy(message.content) THEN message.content ELSE message.result
\* The message the statement gives for a result message that carries a
\* payload.
C32_Expected(message) ==
    [role |-> "tool", isList |-> TRUE, value |-> Undefined,
     parts |-> << [type |-> "tool-result",
                   toolCallId |-> IF Truthy(message.parent_tool_use_id)
                                  THEN message.parent_tool_use_id
                                  ELSE Str("unknown"),
                   toolName |-> Str(""),
                   payload |-> IF C32_Payload(message).t = "string"
                               THEN C32_Payload(message)
                               ELSE [t |-> "string",
                                     v |-> C32_Payload(message).v]] >>]

\* C32: for a message with tag result that carries a content or a result,
\* the sink is given exactly one message of role tool, a single tool-result
\* whose call id is the parent tool-use id, or "unknown" without one, and
\* whose result is the payload if it is a string and its JSON text
\* otherwise; for a result message that carries neither, the sink is given
\* nothing.
C32_ResultDelivered ==
    [][\A t \in Tasks : C32_Case(t) =>
          IF Truthy(C32_Payload(LastMessage(t)))
          THEN tasks'[t].delivered =
                  Append(tasks[t].delivered, C32_Expected(LastMessage(t)))
          ELSE /\ tasks'[t].delivered = tasks[t].delivered
               /\ tasks'[t].callbackErrors = tasks[t].callbackErrors]_vars

\* The sink was given the JSON text of an object content under its parent's
\* call id, then the string result of a message without parent under
\* "unknown".
C32_Witness ==
    /\ tasks[1].sink = "collecting"
    /\ tasks[1].messages = <<ResultContent, ResultDone>>
    /\ tasks[1].delivered =
          << PartsMessage("tool",
                <<ToolPart("tool-result", Str("call-1"), Str(""),
                           Str("{\"ok\":true}"))>>),
             PartsMessage("tool",
                <<ToolPart("tool-result", Str("unknown"), Str(""),
                           Str("done"))>>) >>

(* ---- C33 ---- *)
\* C33: in every state between two asynchronous steps, isInitialized (what
\* isReady returns) implies that claudeCodeQuery is set.
C33_ReadyHasQuery == isInitialized => claudeCodeQuery # None

\* The service is ready with its query function after an initialization
\* started by refreshApiKey loaded a module without one and failed.
C33_Witness ==
    /\ isInitialized
    /\ claudeCodeQuery = Some("query")
    /\ \E t \in Tasks :
          /\ inits[t].by = "refresh" /\ inits[t].pc = "rejected"
          /\ inits[t].err = ImportFailed(QueryNotFoundError)

(* ---- C34 ---- *)
\* An iteration of query t gives its sink nothing, or one message, the one
\* built from the raw message of this iteration, after those it was given
\* before; without a sink nothing is built and no error is caught.
C34_Iteration(t) ==
    Iterated(t) =>
        /\ \/ tasks'[t].delivered = tasks[t].delivered
           \/ /\ tasks[t].sink # "none"
              /\ Translate(LastMessage(t)).out # None
              /\ tasks'[t].delivered =
                    Append(tasks[t].delivered, Translate(LastMessage(t)).out[1])
        /\ tasks[t].sink = "none" =>
              /\ tasks'[t].delivered = <<>>
              /\ tasks'[t].callbackErrors = 0
        /\ tasks'[t].messages = Append(tasks[t].messages, LastMessage(t))
\* The sink of query t is given a message only in the iteration that takes
\* the raw message it is built from: when the next raw message is taken the
\* sink has been given everything built so far.
C34_OnlyInIteration(t) ==
    (tasks[t].pc = "streaming" /\ tasks'[t].pc = "streaming"
        /\ tasks'[t].delivered # tasks[t].delivered) => Iterated(t)
\* The stream of query t, which has no sink, ends: the accumulator is
\* returned and its last session id adopted.
C34_EndWithoutSink(t) ==
    (tasks[t].pc = "streaming" /\ tasks[t].sink = "none"
        /\ event'.type = "returned" /\ event'.task = t)
    => /\ event'.messages = tasks[t].messages
       /\ event'.delivered = <<>>
       /\ C6_EndOfStream(t)

\* C34: within one query the sink is given at most one message per raw
\* message, in the order of the raw messages, each before the next raw
\* message is taken; without a sink nothing is translated, and the messages
\* are accumulated and the session id adopted all the same.
C34_SinkInOrder ==
    /\ [](\A t \in Tasks : Len(tasks[t].delivered) <= Len(tasks[t].messages))
    /\ [][\A t \in Tasks :
            /\ C34_Iteration(t)
            /\ C34_OnlyInIteration(t)
            /\ C34_EndWithoutSink(t)]_vars

\* Of a tool use and a text, taken in this order, the sink was given the
\* tool call, then the text.
C34_Witness ==
    /\ tasks[1].sink = "collecting"
    /\ tasks[1].messages = <<ToolUse, TextHello>>
    /\ tasks[1].delivered =
          << PartsMessage("assistant",
                <<ToolPart("tool-call", Str("call-1"), Str("Write"),
                           Obj("{\"file_path\":\"a.html\"}"))>>),
             TextMessage("assistant", Str("hello")) >>

(* ---- C35 ---- *)
\* Query t leaves its loop only when the stream has ended (it returns the
\* accumulator as it is) or has raised (it throws the stream's error): no
\* step of its own ends the consumption.
C35_ConsumesToTheEnd(t) ==
    (tasks[t].pc = "streaming" /\ tasks'[t].pc # "streaming") =>
        /\ tasks'[t] = DoneTask
        /\ event'.task = t /\ event'.op = "query"
        /\ event'.messages = tasks[t].messages
        /\ \/ event'.type = "returned"
           \/ event'.type = "threw" /\ event'.err \in StreamErrors
\* A query ends by returning or by throwing.
C35_Ends(t) ==
    (tasks[t].op = "query" /\ tasks'[t] = DoneTask) =>
        (event'.task = t /\ event'.type \in {"returned", "threw"})

\* C35: every query called with a usable prompt eventually completes, by
\* returning its accumulator or by throwing, provided imports settle and
\* streams end or raise; and a query stops consuming only when its stream
\* has ended or raised.
C35_QueryCompletes ==
    /\ \A t \in Tasks : (tasks[t].op = "query") ~> (tasks[t] = DoneTask)
    /\ [][\A t \in Tasks : C35_ConsumesToTheEnd(t) /\ C35_Ends(t)]_vars

\* A query whose sink threw on both messages of its stream consumed the
\* stream to its end and returned both.
C35_Witness ==
    /\ event.type = "returned" /\ event.op = "query"
    /\ Len(event.messages) = 2
    /\ event.callbackErrors = 2

====
